---- MODULE Spec2Model ----
(***************************************************************************)
(* A model of the cityflow transport simulation: the traffic adjuster, the *)
(* scenario applier, the agent router (run_abm), the statistics aggregator *)
(* (compute_stats) and the run orchestrator (run_sim.main).                *)
(*                                                                         *)
(* Python values are modelled as follows.                                  *)
(*   - None / an absent dictionary key is the empty tuple <<>>, a present  *)
(*     value x is the one-element tuple <<x>> (None, Some).                *)
(*   - A traffic-level string is a tuple of one-character strings, so that *)
(*     strip() and lower() are computed character by character.            *)
(*   - Edge lengths are integers (metres).  The loaded lengths are even,   *)
(*     so length * 1.5 is the exact integer (length * 3) \div 2.           *)
(*   - A networkx MultiGraph is a record [nodes, edges]; an edge is a      *)
(*     record [ends, key, length, base_length, tram] where ends is the     *)
(*     set of its one or two end nodes and key the multigraph key.         *)
(*   - Graph objects live in a heap (graphs) and the program's variables   *)
(*     G_base and G_scenario hold references into it, so that aliasing     *)
(*     and copying are different things.                                   *)
(***************************************************************************)
EXTENDS Integers, Sequences, FiniteSets, TLC

VARIABLES
    graphs,        \* heap of graph objects: reference -> graph
    G_base,        \* reference held by G_base (NoRef before it is bound)
    G_scenario,    \* reference held by G_scenario
    loaded,        \* ghost: the graph exactly as the loader returned it
    pc,            \* position of the driver / orchestrator
    call,          \* the call last made: its name and arguments
    ret,           \* what that call returned, or that it raised
    pre,           \* ghost: the graph the last call received, before the call
    ncalls,        \* number of calls made so far (bounded)
    registry,      \* the stop table on disk for the city (cities.json)
    frame          \* the orchestrator's configuration and local variables

vars == <<graphs, G_base, G_scenario, loaded, pc, call, ret, pre, ncalls, registry,
          frame>>

\* The frame of a driver that is not the orchestrator.
NoFrame == [config |-> "none"]

----------------------------------------------------------------------------
(* Bounds of the model *)

MaxNodes == 3
MaxCalls == 3
MaxStops == 3
MaxAgents == 2
MaxMainAgents == 1

----------------------------------------------------------------------------
(* Python values *)

None == <<>>
Some(x) == <<x>>
Val(o) == o[1]

Nodes == 1..MaxNodes

NoRef == "unbound"
BaseRef == "base graph"
ScenarioRef == "scenario graph"
Refs == {BaseRef, ScenarioRef}

Min(S) == CHOOSE x \in S : \A y \in S : x <= y
Max(S) == CHOOSE x \in S : \A y \in S : x >= y

----------------------------------------------------------------------------
(* The road network *)

Edge(u, v, k, len, base, tr) ==
    [ends |-> {u, v}, key |-> k, length |-> len, base_length |-> base, tram |-> tr]

EmptyGraph == [nodes |-> {}, edges |-> {}]

\* The edge lengths a loaded network carries: even numbers of metres, given
\* by their halves.
ShortHalf == 100
MidHalf == 150
LongHalf == 300
ShortLen == 2 * ShortHalf
MidLen == 2 * MidHalf
LongLen == 2 * LongHalf
EdgeLengths == {ShortLen, MidLen}

\* Consecutive node pairs (a chain 1 - 2 - ... - MaxNodes) and one chord.
ChainPairs == {<<i, i + 1>> : i \in 1..(MaxNodes - 1)}
ChordPairs == IF MaxNodes >= 3 THEN {<<1, MaxNodes>>} ELSE {}

\* What the external loader (load_city: osmnx graph_from_place, projected,
\* then to_undirected()) can hand to the simulation: an undirected
\* multigraph with a length on every edge and no base_length yet.  Each
\* chain pair is absent or carries an edge of a short or a middle length,
\* the chord is absent or long; the network without any node is included.
GraphOf(f, chord) ==
    [nodes |-> Nodes,
     edges |-> {Edge(p[1], p[2], 0, Some(f[p]), None, FALSE) :
                    p \in {q \in ChainPairs : f[q] # 0}}
               \cup {Edge(p[1], p[2], 0, Some(LongLen), None, FALSE) :
                    p \in {q \in ChordPairs : chord}}]

LoadedGraphs ==
    {GraphOf(f, c) : f \in [ChainPairs -> EdgeLengths \cup {0}], c \in BOOLEAN}
    \cup {EmptyGraph}

\* The networks given to the traffic adjuster on its own: a loaded network,
\* possibly with one more edge that has no length attribute at all.
WithBareEdge(g) ==
    [g EXCEPT !.edges = @ \cup {Edge(1, 1, 0, None, None, FALSE)}]

\* The loaded networks whose chain is complete (every link short) or absent:
\* what the scenario applier reads of a network is its nodes and the
\* edges already lying between the nodes it links.
UniformGraphs ==
    {GraphOf([p \in ChainPairs |-> l], c) : l \in {ShortLen, 0}, c \in BOOLEAN}
    \cup {EmptyGraph}

TrafficGraphs ==
    LoadedGraphs \cup {WithBareEdge(g) : g \in LoadedGraphs \ {EmptyGraph}}

----------------------------------------------------------------------------
(* Strings: strip() and lower() *)

Upper == <<"A", "B", "C", "D", "E", "F", "G", "H", "I", "J", "K", "L", "M",
          "N", "O", "P", "Q", "R", "S", "T", "U", "V", "W", "X", "Y", "Z">>
LowerOf == <<"a", "b", "c", "d", "e", "f", "g", "h", "i", "j", "k", "l", "m",
            "n", "o", "p", "q", "r", "s", "t", "u", "v", "w", "x", "y", "z">>

LowerChar(c) ==
    IF \E i \in 1..Len(Upper) : Upper[i] = c
    THEN LowerOf[CHOOSE i \in 1..Len(Upper) : Upper[i] = c]
    ELSE c

\* The string as it is, upper case kept.
NoLower(s) == s

\* str.lower()
Lower(s) == [i \in 1..Len(s) |-> LowerChar(s[i])]

IsSpace(c) == c \in {" ", "\t", "\n"}

\* str.strip(): the string without its leading and trailing whitespace
Strip(s) ==
    LET keep == {i \in 1..Len(s) : ~IsSpace(s[i])}
    IN  IF keep = {} THEN <<>> ELSE SubSeq(s, Min(keep), Max(keep))

\* The four spellings adjust_for_traffic takes for the peak regime.
PeakForms ==
    { <<"p", "e", "a", "k">>,
      <<"r", "u", "s", "h", " ", "h", "o", "u", "r">>,
      <<"r", "u", "s", "h", "-", "h", "o", "u", "r">>,
      <<"r", "u", "s", "h", "h", "o", "u", "r">> }

\* The traffic levels the model hands to adjust_for_traffic.  None and the
\* empty string are both <<>>: the code reads (traffic_level or "").
TrafficLevels ==
    { <<>>,
      <<"p", "e", "a", "k">>,
      <<" ", "P", "e", "a", "k", " ">>,
      <<"R", "U", "S", "H", "-", "H", "O", "U", "R">>,
      <<"o", "f", "f", "-", "p", "e", "a", "k">>,
      <<"O", "f", "f", " ", "P", "e", "a", "k">> }

----------------------------------------------------------------------------
(* adjust_for_traffic *)

PeakFactorNum == 3
PeakFactorDen == 2

\* A length left as it is.
Uncongested(len) == len

\* float(base_len) * 1.5
Congested(len) == (len * PeakFactorNum) \div PeakFactorDen

\* level = (traffic_level or "").strip().lower(); is_peak = level in (...)
IsPeak(traffic_level) == Lower(Strip(traffic_level)) \in PeakForms

\* The base length the loop body reads for one edge:
\* data.get("base_length", data.get("length", None))
BaseLenCompounding(e) == e.length
BaseLen(e) == IF e.base_length # None THEN e.base_length ELSE e.length

\* An iteration that takes the current length as the base every time.
AdjustEdgeRebasing(e, is_peak) ==
    IF e.length = None
    THEN e
    ELSE [e EXCEPT !.base_length = e.length,
                   !.length = Some(IF is_peak THEN Congested(Val(e.length))
                                              ELSE Val(e.length))]

\* One iteration of the loop over G.edges(data=True).
AdjustEdge(e, is_peak) ==
    LET base_len == BaseLen(e)
    IN  IF base_len = None
        THEN e
        ELSE [e EXCEPT !.base_length = base_len,
                       !.length = Some(IF is_peak THEN Congested(Val(base_len))
                                                  ELSE Val(base_len))]

\* adjust_for_traffic(G, traffic_level): the graph after the in-place update.
Unadjusted(g, traffic_level) == g
AdjustedNoReset(g, traffic_level) ==
    IF IsPeak(traffic_level)
    THEN [g EXCEPT !.edges = {AdjustEdge(e, TRUE) : e \in g.edges}]
    ELSE g
adjust_for_traffic(g, traffic_level) ==
    [g EXCEPT !.edges = {AdjustEdge(e, IsPeak(traffic_level)) : e \in g.edges}]

----------------------------------------------------------------------------
(* Stop coordinates and the city registry *)

\* Node n lies at latitude 10 n and longitude n.
NodeLat(n) == 10 * n
NodeLon(n) == n

\* Three stops with coordinates (Pier at the first node, Quay close to it,
\* Station beyond the last node) and a stop name no table knows.
StopNames == {"Pier", "Quay", "Station", "Ghost"}
StopCoord(s) ==
    IF s = "Pier" THEN <<NodeLat(1), NodeLon(1)>>
    ELSE IF s = "Quay" THEN <<NodeLat(1) + 2, NodeLon(1)>>
    ELSE <<NodeLat(MaxNodes) + 3, NodeLon(MaxNodes)>>

\* A {stop_name: (lat, lon)} dictionary over the names in S.
LookupOver(S) == [s \in S |-> StopCoord(s)]
EmptyLookup == LookupOver({})

\* dict.get(key): None when the key is absent
Get(d, k) == IF k \in DOMAIN d THEN Some(d[k]) ELSE None

\* The stop table of the city on disk: its well-formed rows, and whether a
\* malformed row is among them (a row without "lat" makes the dictionary
\* comprehension raise KeyError, a row whose "lat" is null TypeError).
\* hub is the city's "hub" entry ("" when the city has none or is not listed).
Registry(S, bad, hub) == [stops |-> LookupOver(S), bad |-> bad, hub |-> hub]
NoRegistry == Registry({}, "none", "")
Registries ==
    { NoRegistry,
      Registry({"Pier", "Quay", "Station"}, "none", "Central"),
      Registry({"Pier", "Station"}, "KeyError", ""),
      Registry({"Pier", "Station"}, "TypeError", "Central") }

\* Results of calls: what was returned, or the exception raised.
Ok(v) == [raised |-> None, value |-> v]
Raise(exc) == [raised |-> Some(exc), value |-> <<>>]

\* get_tram_lookup_for_city(city_name): the city's rows as a dictionary, {}
\* for a city the table does not list; raises on a malformed row.
get_tram_lookup_for_city(reg) ==
    IF reg.bad # "none" THEN Raise(reg.bad) ELSE Ok(reg.stops)

\* ox.distance.nearest_nodes(graph, X, Y): the node nearest to the point
\* (the lowest id among equally near ones).
Dist2(n, X, Y) ==
    (NodeLon(n) - X) * (NodeLon(n) - X) + (NodeLat(n) - Y) * (NodeLat(n) - Y)
nearest_nodes(g, X, Y) ==
    Min({n \in g.nodes : \A m \in g.nodes : Dist2(n, X, Y) <= Dist2(m, X, Y)})

\* MultiGraph.add_edge(u, v, length=length, tram=True): a new parallel edge
\* under the next free key; the end nodes are added when missing.
add_edge(g, u, v, length) ==
    LET k == Cardinality({e \in g.edges : e.ends = {u, v}})
    IN  [nodes |-> g.nodes \cup {u, v},
         edges |-> g.edges \cup {Edge(u, v, k, Some(length), None, TRUE)}]

----------------------------------------------------------------------------
(* apply_scenario *)

DefaultTramLength == 300

\* A tram length a scenario configures instead of the default.
AltTramHalf == 250
AltTramLength == 2 * AltTramHalf

\* The list as it is, repetitions kept.
NoDedup(s) == s

\* list(dict.fromkeys(added)): first occurrences, in order
RECURSIVE Dedup(_)
Dedup(s) ==
    IF s = <<>> THEN <<>>
    ELSE LET front == Dedup(SubSeq(s, 1, Len(s) - 1))
             x == s[Len(s)]
         IN  IF \E i \in 1..Len(front) : front[i] = x THEN front
             ELSE Append(front, x)

\* not (c1 and c2): a coordinate pair is truthy, None is not
PairResolvedEager(c1, c2) == TRUE
PairResolved(c1, c2) == c1 # None /\ c2 # None

\* The loop over consecutive stop pairs, from pair i on.  The result holds
\* the graph as the call leaves it, and what the call returns or raises.
RECURSIVE ScenarioLoop(_, _, _, _, _, _)
ScenarioLoop(g, stops, lookup, length, i, added) ==
    IF i > Len(stops) - 1
    THEN [graph |-> g, out |-> Ok(Dedup(added))]
    ELSE LET c1 == Get(lookup, stops[i])
             c2 == Get(lookup, stops[i + 1])
         IN  IF ~PairResolved(c1, c2)
             THEN ScenarioLoop(g, stops, lookup, length, i + 1, added)
             ELSE IF c1 = None \/ c2 = None
             THEN [graph |-> g, out |-> Raise("TypeError")]
             ELSE IF g.nodes = {}
             THEN [graph |-> g, out |-> Raise("ValueError")]
             ELSE LET n1 == nearest_nodes(g, Val(c1)[2], Val(c1)[1])
                      n2 == nearest_nodes(g, Val(c2)[2], Val(c2)[1])
                      g1 == add_edge(g, n1, n2, length)
                      g2 == add_edge(g1, n2, n1, length)
                  IN  ScenarioLoop(g2, stops, lookup, length, i + 1,
                                   added \o <<n1, n2>>)

\* lookup = tram_lookup or (get_tram_lookup_for_city(city_name) if city_name else {})
\* An empty dictionary is falsy, like None.
DeriveLookup(reg, city_name, tram_lookup) ==
    IF tram_lookup # None /\ DOMAIN Val(tram_lookup) # {}
    THEN Ok(Val(tram_lookup))
    ELSE IF city_name # None THEN get_tram_lookup_for_city(reg)
    ELSE Ok(EmptyLookup)

\* apply_scenario(graph, scenario, *, city_name=None, tram_lookup=None)
apply_scenario(g, scenario, reg, city_name, tram_lookup) ==
    LET lookup == DeriveLookup(reg, city_name, tram_lookup)
        stops == IF scenario.tram_stops # None THEN Val(scenario.tram_stops) ELSE <<>>
        length == IF scenario.length # None THEN Val(scenario.length)
                  ELSE DefaultTramLength
    IN  IF lookup.raised # None THEN [graph |-> g, out |-> lookup]
        ELSE IF Len(stops) < 2 THEN [graph |-> g, out |-> Ok(<<>>)]
        ELSE ScenarioLoop(g, stops, lookup.value, length, 1, <<>>)

----------------------------------------------------------------------------
(* Numbers: float quotients are kept as reduced fractions *)

RECURSIVE GCD(_, _)
GCD(a, b) == IF b = 0 THEN a ELSE GCD(b, a % b)

\* a / b for a >= 0 and b > 0
Rat(a, b) == LET g == GCD(a, b) IN [num |-> a \div g, den |-> b \div g]
Zero == Rat(0, 1)

RECURSIVE SumSeq(_)
SumSeq(s) == IF s = <<>> THEN 0 ELSE s[1] + SumSeq(Tail(s))

SeqRange(s) == {s[i] : i \in 1..Len(s)}

----------------------------------------------------------------------------
(* run_abm *)

Modes == <<"drive", "cycle", "tram">>
ModeSet == SeqRange(Modes)

\* dist.get(mode, 0)
Weight(dist, m) == IF m \in DOMAIN dist THEN dist[m] ELSE 0

\* Lines 141-150: the sampling weights of drive, cycle and tram, with the
\* equal-weights fallback when the configured weights do not add up to a
\* positive number.
SamplingWeightsNoFallback(agent_distribution) ==
    LET dist == IF agent_distribution = None THEN <<>> ELSE Val(agent_distribution)
        total_p == Weight(dist, "drive") + Weight(dist, "cycle") + Weight(dist, "tram")
    IN  IF total_p = 0 THEN Raise("ZeroDivisionError")
        ELSE Ok([i \in 1..3 |-> Rat(Weight(dist, Modes[i]), total_p)])
SamplingWeights(agent_distribution) ==
    LET dist == IF agent_distribution = None THEN <<>> ELSE Val(agent_distribution)
        total_p == Weight(dist, "drive") + Weight(dist, "cycle") + Weight(dist, "tram")
    IN  IF total_p <= 0
        THEN Ok([i \in 1..3 |-> Rat(1, 3)])
        ELSE Ok([i \in 1..3 |-> Rat(Weight(dist, Modes[i]), total_p)])

\* random.choices(modes, weights=weights, k=1)[0] can return exactly the
\* modes of positive weight.
DrawableModes(weights) == {Modes[i] : i \in {j \in 1..3 : weights[j].num > 0}}

\* tram_nodes = list(tram_nodes) if tram_nodes else None
TramPool(tram_nodes) ==
    IF tram_nodes = None \/ Val(tram_nodes) = <<>> THEN None ELSE tram_nodes

\* Lines 178-181: the nodes random.choice can return as the home of an agent
\* of the given mode.
HomeCandidatesAnyNode(mode, pool, nodes_list) == nodes_list
HomeCandidates(mode, pool, nodes_list) ==
    IF mode = "tram" /\ pool # None THEN SeqRange(Val(pool)) ELSE nodes_list

\* networkx: the weight of a step between two adjacent nodes of a
\* multigraph is the least "length" among their parallel edges (1 for an
\* edge without the attribute).
EdgeWeightHops(e) == 1
EdgeWeight(e) == IF e.length = None THEN 1 ELSE Val(e.length)
Adjacent(g, n) == {m \in g.nodes : \E e \in g.edges : e.ends = {n, m}}
StepWeight(g, n, m) == Min({EdgeWeight(e) : e \in {x \in g.edges : x.ends = {n, m}}})

\* k rounds of relaxation of the distance labels d (None: not reached yet).
RECURSIVE Relax(_, _, _)
Relax(g, d, k) ==
    IF k = 0 THEN d
    ELSE Relax(g,
               [n \in g.nodes |->
                   LET cands == (IF d[n] # None THEN {Val(d[n])} ELSE {})
                                \cup {Val(d[m]) + StepWeight(g, n, m) :
                                         m \in {x \in Adjacent(g, n) : d[x] # None}}
                   IN  IF cands = {} THEN None ELSE Some(Min(cands))],
               k - 1)

\* nx.shortest_path_length(graph, source=home, target=hub, weight="length")
shortest_path_length(g, source, target) ==
    IF source \notin g.nodes THEN Raise("NodeNotFound")
    ELSE IF target \notin g.nodes THEN Raise("NetworkXNoPath")
    ELSE LET d == Relax(g, [n \in g.nodes |-> IF n = source THEN Some(0) ELSE None],
                        Cardinality(g.nodes) - 1)
         IN  IF d[target] = None THEN Raise("NetworkXNoPath")
             ELSE Ok(Val(d[target]))

ABMAgent(home, mode, dist, status) ==
    [home_node |-> home, mode |-> mode, total_distance |-> dist, status |-> status]

\* except (nx.NetworkXNoPath, nx.NodeNotFound, KeyError, ValueError)
Caught == {"NetworkXNoPath", "NodeNotFound", "KeyError", "ValueError"}

\* Lines 184-191: the accumulators after one agent has been routed; acc.raised
\* is set when an exception leaves the loop.
RouteAgentUnguarded(g, hub, acc, mode, home) ==
    LET r == shortest_path_length(g, home, hub)
    IN  IF r.raised = None
        THEN [acc EXCEPT
                !.agents = Append(@, ABMAgent(home, mode, r.value, "active")),
                !.dists = Append(@, r.value),
                !.by_mode_count = [@ EXCEPT ![mode] = @ + 1],
                !.active_count = @ + 1]
        ELSE [acc EXCEPT !.raised = r.raised]
RouteAgentDropping(g, hub, acc, mode, home) ==
    LET r == shortest_path_length(g, home, hub)
    IN  IF r.raised = None
        THEN [acc EXCEPT
                !.agents = Append(@, ABMAgent(home, mode, r.value, "active")),
                !.dists = Append(@, r.value),
                !.by_mode_count = [@ EXCEPT ![mode] = @ + 1],
                !.active_count = @ + 1]
        ELSE acc
RouteAgentTallyingAll(g, hub, acc, mode, home) ==
    LET r == shortest_path_length(g, home, hub)
    IN  IF r.raised = None
        THEN [acc EXCEPT
                !.agents = Append(@, ABMAgent(home, mode, r.value, "active")),
                !.dists = Append(@, r.value),
                !.by_mode_count = [@ EXCEPT ![mode] = @ + 1],
                !.active_count = @ + 1]
        ELSE IF Val(r.raised) \in Caught
        THEN [acc EXCEPT
                !.agents = Append(@, ABMAgent(home, mode, 0, "inactive")),
                !.by_mode_count = [@ EXCEPT ![mode] = @ + 1]]
        ELSE [acc EXCEPT !.raised = r.raised]
RouteAgent(g, hub, acc, mode, home) ==
    LET r == shortest_path_length(g, home, hub)
    IN  IF r.raised = None
        THEN [acc EXCEPT
                !.agents = Append(@, ABMAgent(home, mode, r.value, "active")),
                !.dists = Append(@, r.value),
                !.by_mode_count = [@ EXCEPT ![mode] = @ + 1],
                !.active_count = @ + 1]
        ELSE IF Val(r.raised) \in Caught
        THEN [acc EXCEPT !.agents = Append(@, ABMAgent(home, mode, 0, "inactive"))]
        ELSE [acc EXCEPT !.raised = r.raised]

\* The loop of lines 175-191 from agent i on; draws[i] is what the random
\* generator gives for agent i: its mode and its home node.
RECURSIVE AbmLoop(_, _, _, _, _)
AbmLoop(g, hub, draws, i, acc) ==
    IF i > Len(draws) \/ acc.raised # None THEN acc
    ELSE AbmLoop(g, hub, draws, i + 1,
                 RouteAgent(g, hub, acc, draws[i].mode, draws[i].home))

\* range(int(num_agents or 0)): the number of loop iterations
Iterations(num_agents) ==
    IF num_agents = None \/ Val(num_agents) < 0 THEN 0 ELSE Val(num_agents)

\* int(num_agents or 0)
CountOf(num_agents) == IF num_agents = None THEN 0 ELSE Val(num_agents)

ZeroCounts == [m \in ModeSet |-> 0]

\* run_abm(graph, hub, num_agents, agent_distribution, tram_nodes): the
\* (stats, agents) pair returned, or the exception raised.
run_abm(g, hub, num_agents, agent_distribution, draws) ==
    LET w == SamplingWeights(agent_distribution)
    IN  IF w.raised # None THEN w
        ELSE IF g.nodes = {}
        THEN Ok([stats |-> [count |-> 0, active |-> 0, avg_distance |-> Zero,
                            max_distance |-> 0, min_distance |-> 0,
                            modes |-> ZeroCounts],
                 agents |-> <<>>])
        ELSE LET acc == AbmLoop(g, hub, draws, 1,
                                [agents |-> <<>>, dists |-> <<>>,
                                 by_mode_count |-> ZeroCounts,
                                 active_count |-> 0, raised |-> None])
                 some == acc.dists # <<>>
             IN  IF acc.raised # None THEN Raise(Val(acc.raised))
                 ELSE Ok([stats |->
                            [count |-> CountOf(num_agents),
                             active |-> acc.active_count,
                             avg_distance |-> IF some
                                              THEN Rat(SumSeq(acc.dists), Len(acc.dists))
                                              ELSE Zero,
                             max_distance |-> IF some THEN Max(SeqRange(acc.dists)) ELSE 0,
                             min_distance |-> IF some THEN Min(SeqRange(acc.dists)) ELSE 0,
                             modes |-> acc.by_mode_count],
                          agents |-> acc.agents])

\* What the random generator can give for a run of n agents: per agent a
\* mode of positive weight and a home among the candidates of that mode.
DrawsFor(g, agent_distribution, tram_nodes, n) ==
    LET w == SamplingWeights(agent_distribution)
        ms == IF w.raised = None THEN DrawableModes(w.value) ELSE {}
        one == {[mode |-> m, home |-> h] :
                   m \in ms, h \in g.nodes \cup (IF tram_nodes = None THEN {}
                                                  ELSE SeqRange(Val(tram_nodes)))}
        ok(d) == d.home \in HomeCandidates(d.mode, TramPool(tram_nodes), g.nodes)
    IN  IF g.nodes = {} \/ w.raised # None THEN {<<>>}
        ELSE {q \in [1..n -> one] : \A i \in 1..n : ok(q[i])}

----------------------------------------------------------------------------
(* compute_stats *)

\* float("inf"), a value no Some(x) equals
Inf == <<1, 0>>

\* min(current, dist) where current is float("inf") or a number
MinWith(current, dist) ==
    IF current = Inf \/ dist < Val(current) THEN Some(dist) ELSE current
\* max(current, dist)
MaxWith(current, dist) == IF dist > current THEN dist ELSE current

\* The defaultdict's entry for a mode not seen before (lines 19-27).
NewModeStats ==
    [count |-> 0, reachable_count |-> 0, unreachable |-> 0, total_distance |-> 0,
     min_distance |-> Inf, max_distance |-> 0, avg_distance |-> None]

InitialStats ==
    [total_agents |-> 0, unreachable |-> 0, avg_distance |-> 0, min_distance |-> Inf,
     max_distance |-> 0, modes |-> <<>>, total_reachable |-> 0]

\* The test of line 37 that sends an agent to the unreachable branch.
CountsAsUnreachable(agent) == agent.status = "unreachable"

\* One iteration of the loop of lines 32-52.
StatsStep(st, agent) ==
    LET mode == agent.mode
        old == IF mode \in DOMAIN st.modes THEN st.modes[mode] ELSE NewModeStats
        dist == agent.total_distance
        m1 == [old EXCEPT !.count = @ + 1]
        put(ms) == [k \in DOMAIN st.modes \cup {mode} |->
                       IF k = mode THEN ms ELSE st.modes[k]]
    IN  IF CountsAsUnreachable(agent)
        THEN [st EXCEPT !.unreachable = @ + 1,
                        !.modes = put([m1 EXCEPT !.unreachable = @ + 1])]
        ELSE [st EXCEPT
                !.avg_distance = @ + dist,
                !.min_distance = MinWith(@, dist),
                !.max_distance = MaxWith(@, dist),
                !.total_reachable = @ + 1,
                !.modes = put([m1 EXCEPT
                                 !.reachable_count = @ + 1,
                                 !.total_distance = @ + dist,
                                 !.min_distance = MinWith(@, dist),
                                 !.max_distance = MaxWith(@, dist)])]

RECURSIVE StatsLoop(_, _)
StatsLoop(st, agents) ==
    IF agents = <<>> THEN st
    ELSE StatsLoop(StatsStep(st, agents[1]), Tail(agents))

\* Lines 62-68: the final values of one mode's entry.
FinalModeStatsKeeping(m) ==
    IF m.reachable_count > 0
    THEN [m EXCEPT !.avg_distance = Some(Rat(m.total_distance, m.reachable_count)),
                   !.max_distance = Some(@)]
    ELSE [m EXCEPT !.avg_distance = None, !.max_distance = Some(@)]
FinalModeStats(m) ==
    IF m.reachable_count > 0
    THEN [m EXCEPT !.avg_distance = Some(Rat(m.total_distance, m.reachable_count)),
                   !.max_distance = Some(@)]
    ELSE [m EXCEPT !.avg_distance = None, !.min_distance = None,
                   !.max_distance = None]

\* compute_stats(agents): the dictionary returned.  In the result a number
\* x is Some(x) and None is None, for avg_distance, min_distance and
\* max_distance alike.
compute_stats(agents) ==
    LET st == StatsLoop([InitialStats EXCEPT !.total_agents = Len(agents)], agents)
        some == st.total_reachable > 0
    IN  [total_agents |-> st.total_agents,
         unreachable |-> st.unreachable,
         avg_distance |-> IF some THEN Some(Rat(st.avg_distance, st.total_reachable))
                          ELSE None,
         min_distance |-> IF some THEN st.min_distance ELSE None,
         max_distance |-> IF some THEN Some(st.max_distance) ELSE None,
         modes |-> [k \in DOMAIN st.modes |-> FinalModeStats(st.modes[k])]]

----------------------------------------------------------------------------
(* Driver of the traffic adjuster: a loaded network, then any calls *)

InitTraffic ==
    /\ \E g \in TrafficGraphs :
          /\ graphs = [r \in Refs |-> IF r = BaseRef THEN g ELSE EmptyGraph]
          /\ loaded = g
          /\ pre = g
    /\ G_base = BaseRef
    /\ G_scenario = NoRef
    /\ pc = "traffic"
    /\ call = [op |-> "none"]
    /\ ret = None
    /\ ncalls = 0
    /\ frame = NoFrame
    /\ registry = NoRegistry

AdjustCall(traffic_level) ==
    /\ pc = "traffic"
    /\ ncalls < MaxCalls
    /\ graphs' = [graphs EXCEPT ![G_base] = adjust_for_traffic(graphs[G_base], traffic_level)]
    /\ pre' = graphs[G_base]
    /\ call' = [op |-> "adjust_for_traffic", traffic_level |-> traffic_level,
                prev_level |-> IF call.op = "adjust_for_traffic"
                               THEN Some(call.traffic_level) ELSE None]
    /\ ret' = Some(G_base)
    /\ ncalls' = ncalls + 1
    /\ UNCHANGED <<G_base, G_scenario, loaded, pc, registry, frame>>

NextTraffic == \E lv \in TrafficLevels : AdjustCall(lv)

SpecTraffic == InitTraffic /\ [][NextTraffic]_vars

----------------------------------------------------------------------------
(* Driver of the regime matching: a loaded network, then one
   adjust_for_traffic call with any spelling of a regime name *)

\* The names of the peak regime and of the other regimes, in lower case
\* with the separators in use, and strings that name no regime.
PeakNames ==
    { <<"p", "e", "a", "k">>,
      <<"r", "u", "s", "h", " ", "h", "o", "u", "r">>,
      <<"r", "u", "s", "h", "-", "h", "o", "u", "r">>,
      <<"r", "u", "s", "h", "h", "o", "u", "r">> }
OffPeakNames ==
    { <<"o", "f", "f", "-", "p", "e", "a", "k">>,
      <<"o", "f", "f", " ", "p", "e", "a", "k">>,
      <<"o", "f", "f", "p", "e", "a", "k">>,
      <<"n", "o", "r", "m", "a", "l">> }
UnknownNames ==
    { <<>>, <<"h", "e", "a", "v", "y">>, <<"H", "i", "g", "h">>, <<" ">> }

UpperChar(c) ==
    IF \E i \in 1..Len(LowerOf) : LowerOf[i] = c
    THEN Upper[CHOOSE i \in 1..Len(LowerOf) : LowerOf[i] = c]
    ELSE c

\* The spellings of a name: all lower case, all upper case, each word
\* capitalised, every other letter raised; bare or with whitespace around.
CaseForms(s) ==
    { s,
      [i \in 1..Len(s) |-> UpperChar(s[i])],
      [i \in 1..Len(s) |-> IF i = 1 \/ s[IF i = 1 THEN 1 ELSE i - 1] \in {" ", "-"}
                           THEN UpperChar(s[i]) ELSE s[i]],
      [i \in 1..Len(s) |-> IF i % 2 = 0 THEN UpperChar(s[i]) ELSE s[i]] }
Padded(s) ==
    { s, <<" ">> \o s, s \o <<" ">>, <<" ", " ">> \o s \o <<" ">>,
      <<"\t">> \o s \o <<"\n">> }
Spellings(names) == UNION {Padded(c) : c \in UNION {CaseForms(s) : s \in names}}
RegimeStrings == Spellings(PeakNames) \cup Spellings(OffPeakNames) \cup UnknownNames

NextRegime ==
    /\ ncalls = 0
    /\ \E lv \in RegimeStrings : AdjustCall(lv)

SpecRegime == InitTraffic /\ [][NextRegime]_vars

----------------------------------------------------------------------------
(* Driver of the scenario applier: a loaded network, then one call *)

RECURSIVE SeqsUpTo(_, _)
SeqsUpTo(S, n) ==
    IF n = 0 THEN {<<>>}
    ELSE LET shorter == SeqsUpTo(S, n - 1)
         IN  shorter \cup {Append(q, x) : q \in shorter, x \in S}

\* The scenarios handed to apply_scenario: with or without a "tram_stops"
\* key and a "length" key.
Scenarios ==
    [tram_stops : {None} \cup {Some(q) : q \in SeqsUpTo(StopNames, MaxStops)},
     length : {None, Some(AltTramLength)}]

\* The tram_lookup arguments: not passed, empty, partial, complete.
LookupArgs ==
    {None, Some(EmptyLookup), Some(LookupOver({"Pier"})),
     Some(LookupOver({"Pier", "Quay", "Station"}))}

CityNames == {None, Some("city")}

InitScenario ==
    /\ \E g \in UniformGraphs :
          /\ graphs = [r \in Refs |-> IF r = BaseRef THEN g ELSE EmptyGraph]
          /\ loaded = g
          /\ pre = g
    /\ registry \in Registries
    /\ G_base = BaseRef
    /\ G_scenario = NoRef
    /\ pc = "scenario"
    /\ call = [op |-> "none"]
    /\ ret = None
    /\ ncalls = 0
    /\ frame = NoFrame

ApplyCall(scenario, city_name, tram_lookup) ==
    /\ pc = "scenario"
    /\ LET r == apply_scenario(graphs[G_base], scenario, registry, city_name, tram_lookup)
       IN  /\ graphs' = [graphs EXCEPT ![G_base] = r.graph]
           /\ ret' = r.out
    /\ pre' = graphs[G_base]
    /\ call' = [op |-> "apply_scenario", scenario |-> scenario,
                city_name |-> city_name, tram_lookup |-> tram_lookup]
    /\ pc' = "applied"
    /\ ncalls' = ncalls + 1
    /\ UNCHANGED <<G_base, G_scenario, loaded, registry, frame>>

NextScenario ==
    /\ pc = "scenario"
    /\ \E sc \in Scenarios, cn \in CityNames, tl \in LookupArgs : ApplyCall(sc, cn, tl)

SpecScenario == InitScenario /\ [][NextScenario]_vars

----------------------------------------------------------------------------
(* Driver of traffic adjustment around scenario application: a loaded
   network, then adjust_for_traffic and apply_scenario calls in any order *)

\* The scenarios applied in between: one tram link from the first node to
\* the last, of the default or of a configured length.
LinkScenarios ==
    {[tram_stops |-> Some(<<"Pier", "Station">>), length |-> l] :
        l \in {None, Some(AltTramLength)}}

InitReadjust ==
    /\ \E g \in UniformGraphs :
          /\ graphs = [r \in Refs |-> IF r = BaseRef THEN g ELSE EmptyGraph]
          /\ loaded = g
          /\ pre = g
    /\ registry = NoRegistry
    /\ G_base = BaseRef
    /\ G_scenario = NoRef
    /\ pc = "readjust"
    /\ call = [op |-> "none"]
    /\ ret = None
    /\ ncalls = 0
    /\ frame = NoFrame

ReadjustCall(traffic_level) ==
    /\ pc = "readjust"
    /\ ncalls < MaxCalls
    /\ graphs' = [graphs EXCEPT ![G_base] = adjust_for_traffic(graphs[G_base], traffic_level)]
    /\ pre' = graphs[G_base]
    /\ call' = [op |-> "adjust_for_traffic", traffic_level |-> traffic_level,
                before |-> call.op]
    /\ ret' = Some(G_base)
    /\ ncalls' = ncalls + 1
    /\ UNCHANGED <<G_base, G_scenario, loaded, pc, registry, frame>>

LinkCall(scenario) ==
    /\ pc = "readjust"
    /\ ncalls < MaxCalls
    /\ LET r == apply_scenario(graphs[G_base], scenario, registry, None,
                               Some(LookupOver({"Pier", "Station"})))
       IN  /\ graphs' = [graphs EXCEPT ![G_base] = r.graph]
           /\ ret' = r.out
    /\ pre' = graphs[G_base]
    /\ call' = [op |-> "apply_scenario", scenario |-> scenario, before |-> call.op]
    /\ ncalls' = ncalls + 1
    /\ UNCHANGED <<G_base, G_scenario, loaded, pc, registry, frame>>

NextReadjust ==
    \/ \E lv \in TrafficLevels : ReadjustCall(lv)
    \/ \E sc \in LinkScenarios : LinkCall(sc)

SpecReadjust == InitReadjust /\ [][NextReadjust]_vars

----------------------------------------------------------------------------
(* Driver of the router: a loaded network, one run_abm call, and the
   aggregator applied to the agents it returned *)


\* The networks routed over: none at all, no link, the whole chain (short
\* and middle links alternating) with and without the long chord, and the
\* chain with its first link missing.
ChainLen(i) == IF i % 2 = 1 THEN ShortLen ELSE MidLen
RoutedGraphs ==
    { EmptyGraph,
      GraphOf([p \in ChainPairs |-> 0], FALSE),
      GraphOf([p \in ChainPairs |-> ChainLen(p[1])], FALSE),
      GraphOf([p \in ChainPairs |-> ChainLen(p[1])], TRUE),
      GraphOf([p \in ChainPairs |-> IF p[1] = 1 THEN 0 ELSE ChainLen(p[1])], FALSE) }

\* Hubs: the first node, and an id that is no node.
Hubs == {1, MaxNodes + 1}

\* num_agents: None, a negative count, and 0..MaxAgents
AgentCounts == {None} \cup {Some(n) : n \in -1..MaxAgents}

\* agent_distribution: None, the empty mapping, all weights zero, one mode
\* only, the default mix.
Distributions ==
    { None,
      Some(<<>>),
      Some([m \in ModeSet |-> 0]),
      Some([m \in {"drive"} |-> 100]),
      Some([m \in {"cycle", "tram"} |-> IF m = "tram" THEN 100 ELSE 0]),
      Some([m \in ModeSet |-> IF m = "drive" THEN 60 ELSE IF m = "cycle" THEN 10 ELSE 30]) }

\* tram_nodes: not passed, empty, and a list of the first node and an id
\* that is no node of the network
TramNodeArgs == {None, Some(<<>>), Some(<<1, MaxNodes + 1>>)}

InitAbm ==
    /\ \E g \in RoutedGraphs :
          /\ graphs = [r \in Refs |-> IF r = BaseRef THEN g ELSE EmptyGraph]
          /\ loaded = g
          /\ pre = g
    /\ registry = NoRegistry
    /\ G_base = BaseRef
    /\ G_scenario = NoRef
    /\ pc = "abm"
    /\ call = [op |-> "none"]
    /\ ret = None
    /\ ncalls = 0
    /\ frame = NoFrame

RunAbmCall(hub, num_agents, agent_distribution, tram_nodes, draws) ==
    /\ pc = "abm"
    /\ ret' = run_abm(graphs[G_base], hub, num_agents, agent_distribution, draws)
    /\ call' = [op |-> "run_abm", hub |-> hub, num_agents |-> num_agents,
                agent_distribution |-> agent_distribution, tram_nodes |-> tram_nodes,
                weights |-> SamplingWeights(agent_distribution)]
    /\ pre' = graphs[G_base]
    /\ pc' = "routed"
    /\ ncalls' = ncalls + 1
    /\ UNCHANGED <<graphs, G_base, G_scenario, loaded, registry, frame>>

\* compute_stats applied to the agent list run_abm returned.
AggregateRouted ==
    /\ pc = "routed"
    /\ ret.raised = None
    /\ ret' = Ok(compute_stats(ret.value.agents))
    /\ call' = [op |-> "compute_stats", agents |-> ret.value.agents, routed |-> call]
    /\ pc' = "aggregated"
    /\ ncalls' = ncalls + 1
    /\ UNCHANGED <<graphs, G_base, G_scenario, loaded, registry, pre, frame>>

NextAbm ==
    \/ /\ pc = "abm"
       /\ \E hub \in Hubs, n \in AgentCounts, ad \in Distributions, tn \in TramNodeArgs :
             \E draws \in DrawsFor(graphs[G_base], ad, tn, Iterations(n)) :
                RunAbmCall(hub, n, ad, tn, draws)
    \/ AggregateRouted

SpecAbm == InitAbm /\ [][NextAbm]_vars

----------------------------------------------------------------------------
(* Driver of the aggregator: compute_stats on any agent list *)

Distances == {0, ShortLen, ShortLen + MidLen}

AnyAgents ==
    [home_node : {1}, mode : ModeSet, total_distance : Distances,
     status : {"active", "unreachable"}]

InitStats ==
    /\ graphs = [r \in Refs |-> EmptyGraph]
    /\ loaded = EmptyGraph
    /\ pre = EmptyGraph
    /\ registry = NoRegistry
    /\ G_base = NoRef
    /\ G_scenario = NoRef
    /\ pc = "stats"
    /\ call = [op |-> "none"]
    /\ ret = None
    /\ ncalls = 0
    /\ frame = NoFrame

AggregateCall(agents) ==
    /\ pc = "stats"
    /\ ret' = Ok(compute_stats(agents))
    /\ call' = [op |-> "compute_stats", agents |-> agents, routed |-> [op |-> "none"]]
    /\ pc' = "aggregated"
    /\ ncalls' = ncalls + 1
    /\ UNCHANGED <<graphs, G_base, G_scenario, loaded, registry, pre, frame>>

NextStats ==
    /\ pc = "stats"
    /\ \E agents \in SeqsUpTo(AnyAgents, MaxAgents) : AggregateCall(agents)

SpecStats == InitStats /\ [][NextStats]_vars

----------------------------------------------------------------------------
(* The orchestrator: run_sim.main *)

\* In the configuration a stop or hub name that is None, absent or empty is
\* the empty string: the code tests these names for truth only.
OffPeak == <<"o", "f", "f", "-", "p", "e", "a", "k">>

\* Line 113: config_raw.get("traffic", config_raw.get("traffic_level", "off-peak"))
MainTrafficLevel(cfg) == IF cfg.traffic = None THEN OffPeak ELSE Val(cfg.traffic)

\* Lines 123-130: the scenario, the stop list and the tram length main uses.
HasScenario(cfg) == cfg.scenarios # None
MainScenario(cfg) ==
    IF HasScenario(cfg) THEN Val(cfg.scenarios)
    ELSE [tram_stops |-> Some(IF cfg.tram_start # "" /\ cfg.tram_end # ""
                              THEN <<cfg.tram_start, cfg.tram_end>> ELSE <<>>),
          length |-> Some(DefaultTramLength)]
MainTramStops(cfg) ==
    IF MainScenario(cfg).tram_stops # None THEN Val(MainScenario(cfg).tram_stops)
    ELSE <<cfg.tram_start, cfg.tram_end>>
MainLength(cfg) ==
    IF MainScenario(cfg).length # None THEN Val(MainScenario(cfg).length)
    ELSE DefaultTramLength

\* tram_lookup_from_cities(city_name): the well-formed rows of cities.json
tram_lookup_from_cities(reg) == reg.stops

\* Lines 133-136: get_tram_lookup_for_city, and tram_lookup_from_cities
\* when that raises.
MainLookup(reg) ==
    LET r == get_tram_lookup_for_city(reg)
    IN  IF r.raised = None THEN r.value ELSE tram_lookup_from_cities(reg)

\* Lines 143-151: the hub name: the configured one, else the registry's,
\* else tram_start or tram_end.
HubName(cfg, reg) ==
    IF cfg.hub # "" THEN cfg.hub
    ELSE IF reg.hub # "" THEN reg.hub
    ELSE IF cfg.tram_start # "" THEN cfg.tram_start
    ELSE cfg.tram_end

\* ox.geocoder.geocode(name): the coordinates of a place the geocoder knows,
\* an exception for any other query.
Geocode(name) ==
    IF name \in {"Pier", "Quay", "Station"} THEN Ok(StopCoord(name))
    ELSE IF name = "Central" THEN Ok(<<NodeLat(2), NodeLon(2)>>)
    ELSE Raise("InsufficientResponseError")

\* get_hub_node(G, location_name)
get_hub_node(g, name) ==
    LET c == Geocode(name)
    IN  IF c.raised # None THEN c
        ELSE IF g.nodes = {} THEN Raise("ValueError")
        ELSE Ok(nearest_nodes(g, c.value[2], c.value[1]))

\* Line 163: G_scenario = G_base.copy().  The heap after the copy and the
\* reference G_scenario then holds.
GraphCopyAliased(heap, src) == [ref |-> src, heap |-> heap]
GraphCopy(heap, src) ==
    [ref |-> ScenarioRef, heap |-> [heap EXCEPT ![ScenarioRef] = heap[src]]]

\* Lines 166-174: apply_scenario with the city name; on a TypeError the
\* call without it, whose exceptions are swallowed.  applied is what the
\* apply_scenario call that counted returned or raised.
TryApply(g, cfg, reg) ==
    LET r1 == apply_scenario(g, MainScenario(cfg), reg, Some("city"), None)
        r2 == apply_scenario(r1.graph, MainScenario(cfg), reg, None, None)
    IN  IF r1.out.raised = None
        THEN [graph |-> r1.graph, tram_nodes |-> Some(r1.out.value),
              raised |-> None, applied |-> r1.out]
        ELSE IF r1.out.raised # Some("TypeError")
        THEN [graph |-> r1.graph, tram_nodes |-> None,
              raised |-> r1.out.raised, applied |-> r1.out]
        ELSE IF r2.out.raised = None
        THEN [graph |-> r2.graph, tram_nodes |-> Some(r2.out.value),
              raised |-> None, applied |-> r2.out]
        ELSE [graph |-> r2.graph, tram_nodes |-> None,
              raised |-> None, applied |-> r2.out]

\* Lines 177-190: when apply_scenario gave no nodes, main links the first
\* two stops itself, through its own lookup.
Fallback(t, cfg, reg) ==
    LET stops == MainTramStops(cfg)
        lookup == MainLookup(reg)
        none == t.tram_nodes = None \/ Val(t.tram_nodes) = <<>>
    IN  IF ~(none /\ Len(stops) >= 2) THEN t
        ELSE LET c1 == Get(lookup, stops[1])
                 c2 == Get(lookup, stops[2])
             IN  IF c1 = None \/ c2 = None THEN t
                 ELSE IF t.graph.nodes = {} THEN [t EXCEPT !.tram_nodes = None]
                 ELSE LET n1 == nearest_nodes(t.graph, Val(c1)[2], Val(c1)[1])
                          n2 == nearest_nodes(t.graph, Val(c2)[2], Val(c2)[1])
                          g1 == add_edge(t.graph, n1, n2, MainLength(cfg))
                          g2 == add_edge(g1, n2, n1, MainLength(cfg))
                      IN  [t EXCEPT !.graph = g2, !.tram_nodes = Some(<<n1, n2>>)]

\* Lines 166-190 followed by a second traffic adjustment of the scenario
\* graph, which main does not make.
ScenarioStageReadjusted(g, cfg, reg) ==
    LET t == TryApply(g, cfg, reg)
        f == IF t.raised # None THEN t ELSE Fallback(t, cfg, reg)
    IN  [f EXCEPT !.graph = adjust_for_traffic(f.graph, MainTrafficLevel(cfg))]

\* Lines 166-190 on the scenario graph g.
ScenarioStage(g, cfg, reg) ==
    LET t == TryApply(g, cfg, reg)
    IN  IF t.raised # None THEN t ELSE Fallback(t, cfg, reg)

\* group_stats_by_mode(agents): per mode with an active agent, the mean,
\* the greatest distance and the number of the active agents of the mode.
group_stats_by_mode(agents) ==
    LET act(m) == {i \in 1..Len(agents) :
                      agents[i].status = "active" /\ agents[i].mode = m}
        seen == {m \in ModeSet : act(m) # {}}
        sum(m) == SumSeq([k \in 1..Len(agents) |->
                            IF k \in act(m) THEN agents[k].total_distance ELSE 0])
    IN  [m \in seen |->
            [avg |-> Rat(sum(m), Cardinality(act(m))),
             max |-> Max({agents[i].total_distance : i \in act(m)}),
             count |-> Cardinality(act(m))]]

\* The configurations main is run with.
Peak == <<"p", "e", "a", "k">>
OneMode(m) == Some([k \in {m} |-> 100])
MainScenarios ==
    { None,
      Some([tram_stops |-> None, length |-> Some(AltTramLength)]),
      Some([tram_stops |-> Some(<<"Pier", "Quay">>), length |-> None]),
      Some([tram_stops |-> Some(<<"Pier", "Station">>), length |-> Some(AltTramLength)]),
      Some([tram_stops |-> Some(<<"Ghost", "Station">>), length |-> None]) }
\* tram_start and tram_end: both given, the end only, neither.
MainConfigs ==
    {c \in [traffic : {None, Some(Peak)},
            tram_start : {"", "Pier"},
            tram_end : {"", "Station"},
            num_agents : {0, MaxMainAgents},
            agent_distribution : {OneMode("tram")},
            hub : {"", "Central"},
            scenarios : MainScenarios] :
        c.tram_end = "" => c.tram_start = ""}

\* The networks load_city gives main: none at all, the whole chain, and
\* the chain with its first link missing.
MainGraphs ==
    { EmptyGraph,
      GraphOf([p \in ChainPairs |-> ChainLen(p[1])], FALSE),
      GraphOf([p \in ChainPairs |-> IF p[1] = 1 THEN 0 ELSE ChainLen(p[1])], FALSE) }

InitMain ==
    /\ loaded \in MainGraphs
    /\ registry \in Registries
    /\ \E cfg \in MainConfigs :
          frame = [config |-> cfg, hub |-> None, tram_nodes |-> None, applied |-> None,
                   adjusted |-> EmptyGraph, baseline |-> None, tramline |-> None,
                   outputs |-> None, error |-> ""]
    /\ graphs = [r \in Refs |-> EmptyGraph]
    /\ pre = EmptyGraph
    /\ G_base = NoRef
    /\ G_scenario = NoRef
    /\ pc = "start"
    /\ call = [op |-> "main"]
    /\ ret = None
    /\ ncalls = 0

Fail(why) ==
    /\ pc' = "FAILED"
    /\ frame' = [frame EXCEPT !.error = why]

\* Line 139: G_base = load_city(city_name); the loader may fail.
LoadCity ==
    /\ pc = "start"
    /\ \/ /\ graphs' = [graphs EXCEPT ![BaseRef] = loaded]
          /\ G_base' = BaseRef
          /\ pc' = "LOADED"
          /\ UNCHANGED frame
       \/ /\ Fail("load_city")
          /\ UNCHANGED <<graphs, G_base>>
    /\ UNCHANGED <<G_scenario, loaded, call, ret, pre, ncalls, registry>>

\* Line 140: G_base = adjust_for_traffic(G_base, traffic_level)
AdjustTraffic ==
    /\ pc = "LOADED"
    /\ LET g == adjust_for_traffic(graphs[G_base], MainTrafficLevel(frame.config))
       IN  /\ graphs' = [graphs EXCEPT ![G_base] = g]
           /\ frame' = [frame EXCEPT !.adjusted = g]
    /\ pc' = "TRAFFIC_ADJUSTED"
    /\ UNCHANGED <<G_base, G_scenario, loaded, call, ret, pre, ncalls, registry>>

\* A hub resolution that falls back to node id 0 where get_hub_node raises
\* and does not test the node it got.
ResolvedHubDefaulting(g, name) ==
    LET r == get_hub_node(g, name)
    IN  IF r.raised # None THEN Ok(0) ELSE r

\* Lines 153-155: hub = get_hub_node(G_base, hub_name), and the ValueError
\* when that node is not in G_base.
ResolvedHub(g, name) ==
    LET r == get_hub_node(g, name)
    IN  IF r.raised # None THEN r
        ELSE IF r.value \notin g.nodes THEN Raise("ValueError")
        ELSE r

\* Lines 143-155: the hub name, get_hub_node, and the membership test.
ResolveHub ==
    /\ pc = "TRAFFIC_ADJUSTED"
    /\ LET r == ResolvedHub(graphs[G_base], HubName(frame.config, registry))
       IN  IF r.raised # None THEN Fail("hub")
           ELSE /\ frame' = [frame EXCEPT !.hub = Some(r.value)]
                /\ pc' = "HUB_RESOLVED"
    /\ UNCHANGED <<graphs, G_base, G_scenario, loaded, call, ret, pre, ncalls, registry>>

\* Lines 158-160: the baseline pass.
BaselineRouting ==
    /\ pc = "HUB_RESOLVED"
    /\ \E draws \in DrawsFor(graphs[G_base], frame.config.agent_distribution, None,
                              Iterations(Some(frame.config.num_agents))) :
          LET r == run_abm(graphs[G_base], Val(frame.hub), Some(frame.config.num_agents),
                           frame.config.agent_distribution, draws)
          IN  IF r.raised # None THEN Fail("run_abm")
              ELSE /\ frame' = [frame EXCEPT !.baseline = Some(r.value)]
                   /\ pc' = "BASELINE_ROUTED"
    /\ UNCHANGED <<graphs, G_base, G_scenario, loaded, call, ret, pre, ncalls, registry>>

\* Lines 163-190: the copy, apply_scenario and main's own edge insertion.
ApplyScenarioStep ==
    /\ pc = "BASELINE_ROUTED"
    /\ LET c == GraphCopy(graphs, G_base)
           t == ScenarioStage(c.heap[c.ref], frame.config, registry)
       IN  /\ graphs' = [c.heap EXCEPT ![c.ref] = t.graph]
           /\ G_scenario' = c.ref
           /\ frame' = [frame EXCEPT !.tram_nodes = t.tram_nodes,
                                      !.applied = Some(t.applied),
                                      !.error = IF t.raised # None THEN "apply_scenario"
                                                ELSE @]
           /\ pc' = IF t.raised # None THEN "FAILED" ELSE "SCENARIO_APPLIED"
    /\ UNCHANGED <<G_base, loaded, call, ret, pre, ncalls, registry>>

\* Lines 201-204: the scenario pass.
ScenarioRouting ==
    /\ pc = "SCENARIO_APPLIED"
    /\ \E draws \in DrawsFor(graphs[G_scenario], frame.config.agent_distribution,
                              frame.tram_nodes, Iterations(Some(frame.config.num_agents))) :
          LET r == run_abm(graphs[G_scenario], Val(frame.hub),
                           Some(frame.config.num_agents),
                           frame.config.agent_distribution, draws)
          IN  IF r.raised # None THEN Fail("run_abm")
              ELSE /\ frame' = [frame EXCEPT !.tramline = Some(r.value)]
                   /\ pc' = "SCENARIO_ROUTED"
    /\ UNCHANGED <<graphs, G_base, G_scenario, loaded, call, ret, pre, ncalls, registry>>

\* Lines 206-262: the per-mode summaries are added to both statistics
\* records and the records are written.
WithByMode(r) ==
    [count |-> r.stats.count, active |-> r.stats.active,
     avg_distance |-> r.stats.avg_distance, max_distance |-> r.stats.max_distance,
     min_distance |-> r.stats.min_distance, modes |-> r.stats.modes,
     by_mode |-> group_stats_by_mode(r.agents)]

\* json.dump of a float: a number, or the token Infinity or NaN that the
\* encoder writes for a value that is not finite.
JsonFloat(x) ==
    IF x.den # 0 THEN [kind |-> "number", value |-> x]
    ELSE IF x.num # 0 THEN [kind |-> "Infinity"]
    ELSE [kind |-> "NaN"]

\* Lines 255-262: json.dump of a statistics record; the distance figures
\* are the floats run_abm and group_stats_by_mode computed.
json_dump(st) ==
    [count |-> st.count, active |-> st.active,
     avg_distance |-> JsonFloat(st.avg_distance),
     max_distance |-> JsonFloat(Rat(st.max_distance, 1)),
     min_distance |-> JsonFloat(Rat(st.min_distance, 1)),
     modes |-> st.modes,
     by_mode |-> [m \in DOMAIN st.by_mode |->
                    [avg |-> JsonFloat(st.by_mode[m].avg),
                     max |-> JsonFloat(Rat(st.by_mode[m].max, 1)),
                     count |-> st.by_mode[m].count]]]

WriteOutputs ==
    /\ pc = "SCENARIO_ROUTED"
    /\ frame' = [frame EXCEPT !.outputs =
                    Some([baseline_stats |-> json_dump(WithByMode(Val(frame.baseline))),
                          tramline_stats |-> json_dump(WithByMode(Val(frame.tramline)))])]
    /\ pc' = "AGGREGATED"
    /\ UNCHANGED <<graphs, G_base, G_scenario, loaded, call, ret, pre, ncalls, registry>>

NextMain ==
    \/ LoadCity
    \/ AdjustTraffic
    \/ ResolveHub
    \/ BaselineRouting
    \/ ApplyScenarioStep
    \/ ScenarioRouting
    \/ WriteOutputs

SpecMain == InitMain /\ [][NextMain]_vars

----------------------------------------------------------------------------
(* Claims about adjust_for_traffic (SpecTraffic) *)

\* The traffic levels of the model that name the peak regime.
SaidPeak(lv) ==
    lv \in { <<"p", "e", "a", "k">>,
             <<" ", "P", "e", "a", "k", " ">>,
             <<"R", "U", "S", "H", "-", "H", "O", "U", "R">> }

\* The edge of graph g that is edge e of another graph (same ends and key).
SameEdge(e, o) == e.ends = o.ends /\ e.key = o.key

\* Two calls in a row with one regime have just been made.
SameRegimeTwice ==
    /\ call.op = "adjust_for_traffic"
    /\ call.prev_level # None
    /\ SaidPeak(Val(call.prev_level)) = SaidPeak(call.traffic_level)

\* C1: adjust_for_traffic is idempotent per regime: when it has been applied
\* twice in a row with the same regime, every edge has the length it had
\* after the first of the two applications (the factor does not compound).
C1_Idempotent ==
    SameRegimeTwice =>
        /\ {<<e.ends, e.key>> : e \in graphs[G_base].edges}
               = {<<e.ends, e.key>> : e \in pre.edges}
        /\ \A e \in graphs[G_base].edges : \A o \in pre.edges :
               SameEdge(e, o) => e.length = o.length

\* C1 witness: peak applied twice in a row to a network with a scaled edge.
C1_Witness ==
    /\ SameRegimeTwice
    /\ SaidPeak(call.traffic_level)
    /\ \E e \in graphs[G_base].edges : \E o \in loaded.edges :
           SameEdge(e, o) /\ o.length = Some(ShortLen)
                          /\ e.length = Some(ShortLen + ShortHalf)

\* C2: after any sequence of adjust_for_traffic calls every edge's length is
\* a function of its original length and the regime of the last call alone:
\* the original times 1.5 when that regime is peak, the original otherwise.
C2_LastRegimeDecides ==
    call.op = "adjust_for_traffic" =>
        /\ {<<e.ends, e.key>> : e \in graphs[G_base].edges}
               = {<<e.ends, e.key>> : e \in loaded.edges}
        /\ \A e \in graphs[G_base].edges : \A o \in loaded.edges :
               (SameEdge(e, o) /\ o.length # None) =>
                   e.length = Some(IF SaidPeak(call.traffic_level)
                                   THEN (3 * Val(o.length)) \div 2
                                   ELSE Val(o.length))

\* C2 witness: off-peak applied right after peak, an edge back at its
\* original length.
C2_Witness ==
    /\ call.op = "adjust_for_traffic"
    /\ ~SaidPeak(call.traffic_level)
    /\ call.prev_level # None
    /\ SaidPeak(Val(call.prev_level))
    /\ \E e \in graphs[G_base].edges :
           e.length = Some(ShortLen) /\ e.base_length = Some(ShortLen)

----------------------------------------------------------------------------
(* Claims about apply_scenario (SpecScenario) *)

\* The stop list and the coordinate lookup the last apply_scenario call
\* worked with, and the consecutive pairs with both names in the lookup.
CallStops == IF call.scenario.tram_stops = None THEN <<>>
             ELSE Val(call.scenario.tram_stops)
CallLookup == DeriveLookup(registry, call.city_name, call.tram_lookup)
ResolvedPairs ==
    {i \in 1..(Len(CallStops) - 1) :
        /\ CallStops[i] \in DOMAIN CallLookup.value
        /\ CallStops[i + 1] \in DOMAIN CallLookup.value}
AddedEdges == graphs[G_base].edges \ pre.edges

\* C5: apply_scenario never raises because a stop name is missing from the
\* coordinate lookup: a consecutive pair with a missing name adds no edge
\* (two edges per resolved pair are all that is added), a call raises only
\* when some pair did resolve, and when no pair resolves the call returns
\* the empty list and leaves the network as it was.
C5_MissingStopsTolerated ==
    (call.op = "apply_scenario" /\ CallLookup.raised = None) =>
        /\ ret.raised # None => ResolvedPairs # {}
        /\ ret.raised = None =>
               Cardinality(AddedEdges) = 2 * Cardinality(ResolvedPairs)
        /\ ResolvedPairs = {} => (ret = Ok(<<>>) /\ graphs[G_base] = pre)

\* C5 witness: a three-stop line whose last name is in no lookup; the first
\* pair is linked, the second is skipped, nothing is raised.
C5_Witness ==
    /\ call.op = "apply_scenario"
    /\ CallLookup.raised = None
    /\ Len(CallStops) = 3
    /\ CallStops[3] \notin DOMAIN CallLookup.value
    /\ ResolvedPairs = {1}
    /\ ret.raised = None
    /\ Cardinality(AddedEdges) = 2

----------------------------------------------------------------------------
(* Claims about run_abm and compute_stats (SpecAbm, SpecStats) *)

\* The nodes of g that paths from the nodes in S reach.
RECURSIVE Reach(_, _)
Reach(g, S) ==
    LET T == S \cup {m \in g.nodes : \E n \in S : \E e \in g.edges : e.ends = {n, m}}
    IN  IF T = S THEN S ELSE Reach(g, T)
HasPath(g, a, b) == a \in g.nodes /\ b \in g.nodes /\ b \in Reach(g, {a})

Routed == pc = "routed" /\ call.op = "run_abm"
Requested == IF call.num_agents = None THEN 0 ELSE Val(call.num_agents)
WithStatus(agents, st) == {i \in 1..Len(agents) : agents[i].status = st}

\* C4 as stated: for every network, hub, distribution and agent count N,
\* run_abm returns exactly N agents, and reachable plus unreachable is N.
C4_AlwaysN ==
    (Routed /\ Requested >= 0) =>
        /\ ret.raised = None
        /\ Len(ret.value.agents) = Requested
        /\ Cardinality(WithStatus(ret.value.agents, "active"))
             + Cardinality(WithStatus(ret.value.agents, "inactive")) = Requested

\* C4 amended: on a network with at least one node run_abm returns exactly
\* N agents for N >= 0, and reachable plus unreachable is N; on a network
\* without nodes, and for a negative N, the list is empty.
C4_NOnNonEmptyNetwork ==
    Routed =>
        /\ ret.raised = None
        /\ Len(ret.value.agents) =
              (IF pre.nodes = {} \/ Requested < 0 THEN 0 ELSE Requested)
        /\ Cardinality(WithStatus(ret.value.agents, "active"))
             + Cardinality(WithStatus(ret.value.agents, "inactive"))
               = Len(ret.value.agents)

\* C4 witness: MaxAgents agents requested on a network with nodes, one of
\* the returned agents reachable and one not.
C4_Witness ==
    /\ Routed
    /\ pre.nodes # {}
    /\ Requested = MaxAgents
    /\ ret.raised = None
    /\ Len(ret.value.agents) = MaxAgents
    /\ WithStatus(ret.value.agents, "active") # {}
    /\ WithStatus(ret.value.agents, "inactive") # {}

\* C9: a routing failure for one agent (no path, or the home node or the
\* hub not in the graph) never aborts run_abm: the call raises nothing,
\* every agent of the run is in the list, an agent without a path is
\* marked inactive with distance 0, and an agent with a path is active.
C9_RoutingMissAbsorbed ==
    Routed =>
        /\ ret.raised = None
        /\ pre.nodes # {} =>
              /\ Len(ret.value.agents) = (IF Requested < 0 THEN 0 ELSE Requested)
              /\ \A i \in 1..Len(ret.value.agents) :
                    LET a == ret.value.agents[i]
                    IN  IF HasPath(pre, a.home_node, call.hub)
                        THEN a.status = "active"
                        ELSE a.status = "inactive" /\ a.total_distance = 0

\* C9 witness: the first agent has no path to the hub, a later one has.
C9_Witness ==
    /\ Routed
    /\ ret.raised = None
    /\ Len(ret.value.agents) >= 2
    /\ ~HasPath(pre, ret.value.agents[1].home_node, call.hub)
    /\ ret.value.agents[1].status = "inactive"
    /\ ret.value.agents[2].status = "active"

\* The configured weights of drive, cycle and tram add up to 0.
ZeroWeights ==
    \/ call.agent_distribution = None
    \/ \A m \in DOMAIN Val(call.agent_distribution) :
          m \in ModeSet => Val(call.agent_distribution)[m] = 0

\* C10: when the weights of drive, cycle and tram add up to 0 (all zero,
\* absent, the mapping empty or None) run_abm raises nothing and samples
\* every mode with probability one third.
C10_UniformFallback ==
    (Routed /\ ZeroWeights) =>
        /\ ret.raised = None
        /\ call.weights.raised = None
        /\ \A i \in 1..3 :
              call.weights.value[i].num = 1 /\ call.weights.value[i].den = 3

\* C10 witness: all three weights are 0 and a tram agent was drawn.
C10_Witness ==
    /\ Routed
    /\ call.agent_distribution = Some([m \in ModeSet |-> 0])
    /\ ret.raised = None
    /\ \E i \in 1..Len(ret.value.agents) : ret.value.agents[i].mode = "tram"

\* Sum of the distances of the agents with index in I.
RECURSIVE SumAt(_, _)
SumAt(agents, I) ==
    IF I = {} THEN 0
    ELSE LET i == CHOOSE x \in I : TRUE
         IN  agents[i].total_distance + SumAt(agents, I \ {i})

\* avg, min and max are the mean, least and greatest distance of the agents
\* with index in I, and all None when I is empty.
SummaryOf(agents, I, avg, min, max) ==
    IF I = {}
    THEN avg = None /\ min = None /\ max = None
    ELSE /\ avg # None /\ min # None /\ max # None /\ min # Inf
         /\ Val(avg).num * Cardinality(I) = SumAt(agents, I) * Val(avg).den
         /\ \E i \in I : agents[i].total_distance = Val(min)
         /\ \A i \in I : agents[i].total_distance >= Val(min)
         /\ \E i \in I : agents[i].total_distance = Val(max)
         /\ \A i \in I : agents[i].total_distance <= Val(max)

Aggregated == pc = "aggregated" /\ call.op = "compute_stats"
OfMode(agents, I, m) == {i \in I : agents[i].mode = m}

\* C7: compute_stats takes the population average, minimum and maximum over
\* the reachable agents only, and per mode over the reachable agents of that
\* mode; where the reachable count is 0 all three are None.
C7_StatsOverReachable ==
    Aggregated =>
        LET agents == call.agents
            st == ret.value
            R == WithStatus(agents, "active")
        IN  /\ st.total_agents = Len(agents)
            /\ st.unreachable = Len(agents) - Cardinality(R)
            /\ SummaryOf(agents, R, st.avg_distance, st.min_distance, st.max_distance)
            /\ DOMAIN st.modes = {agents[i].mode : i \in 1..Len(agents)}
            /\ \A m \in DOMAIN st.modes :
                  /\ st.modes[m].count = Cardinality(OfMode(agents, 1..Len(agents), m))
                  /\ st.modes[m].reachable_count = Cardinality(OfMode(agents, R, m))
                  /\ SummaryOf(agents, OfMode(agents, R, m), st.modes[m].avg_distance,
                               st.modes[m].min_distance, st.modes[m].max_distance)

\* C7 witness: one mode with a reachable agent, another mode with an
\* unreachable agent only.
C7_Witness ==
    /\ Aggregated
    /\ Len(call.agents) = 2
    /\ call.agents[1].status = "active" /\ call.agents[1].total_distance > 0
    /\ call.agents[2].status = "unreachable"
    /\ call.agents[1].mode # call.agents[2].mode
    /\ ret.value.avg_distance # None
    /\ ret.value.modes[call.agents[2].mode].avg_distance = None

\* C8: the router and the aggregator agree on agent status: every agent
\* run_abm recorded as having no path is counted as unreachable by
\* compute_stats, and its distance enters no average, minimum or maximum.
C8_StatusAgreement ==
    (Aggregated /\ call.routed.op = "run_abm") =>
        LET agents == call.agents
            st == ret.value
            R == {i \in 1..Len(agents) : HasPath(pre, agents[i].home_node, call.routed.hub)}
        IN  /\ st.unreachable = Len(agents) - Cardinality(R)
            /\ SummaryOf(agents, R, st.avg_distance, st.min_distance, st.max_distance)
            /\ \A m \in DOMAIN st.modes :
                  SummaryOf(agents, OfMode(agents, R, m), st.modes[m].avg_distance,
                            st.modes[m].min_distance, st.modes[m].max_distance)

----------------------------------------------------------------------------
(* Claims about the orchestrator (SpecMain) *)

\* The scenario stage of the run is over (it may have raised).
ScenarioStageDone == "applied" \in DOMAIN frame /\ frame.applied # None
TramEdges(g) == {e \in g.edges : e.tram}

\* C3: in an orchestrator run, once the scenario stage is over (main's own
\* edge insertion included) the baseline network is the network traffic
\* adjustment left, edge for edge and length for length, it has no tram
\* edge, and the scenario network is another object that holds the baseline
\* edges plus tram edges only.
C3_BaselineUntouched ==
    ScenarioStageDone =>
        /\ G_scenario # G_base
        /\ graphs[G_base] = frame.adjusted
        /\ TramEdges(graphs[G_base]) = {}
        /\ graphs[G_base].edges \subseteq graphs[G_scenario].edges
        /\ graphs[G_scenario].edges \ graphs[G_base].edges
               \subseteq TramEdges(graphs[G_scenario])

\* C3 witness: apply_scenario returned no nodes, main inserted the tram
\* edge itself, and the scenario network now has tram edges.
C3_Witness ==
    /\ pc = "SCENARIO_APPLIED"
    /\ ScenarioStageDone
    /\ Val(frame.applied) = Ok(<<>>)
    /\ frame.tram_nodes # None
    /\ Len(Val(frame.tram_nodes)) = 2
    /\ TramEdges(graphs[G_scenario]) # {}

\* The scenario main handed to apply_scenario names two stops and both are
\* in the lookup apply_scenario derived; the nearest nodes of the two.
MainStops == IF MainScenario(frame.config).tram_stops = None THEN <<>>
             ELSE Val(MainScenario(frame.config).tram_stops)
TwoResolvableStops ==
    /\ ScenarioStageDone
    /\ get_tram_lookup_for_city(registry).raised = None
    /\ Len(MainStops) = 2
    /\ \A i \in 1..2 : MainStops[i] \in DOMAIN get_tram_lookup_for_city(registry).value
StopNode(i) ==
    LET c == get_tram_lookup_for_city(registry).value[MainStops[i]]
    IN  nearest_nodes(frame.adjusted, c[2], c[1])
TramLengthsRight ==
    /\ Cardinality(TramEdges(graphs[G_scenario])) = 2
    /\ \A e \in TramEdges(graphs[G_scenario]) :
          /\ e.ends = {StopNode(1), StopNode(2)}
          /\ e.length = Some(MainLength(frame.config))

\* C6 as stated: with two resolvable stops apply_scenario returns the pair
\* of nearest nodes, both in the network, and the tram edges between them
\* have the configured length, unscaled under peak.
C6_ReturnsPair ==
    TwoResolvableStops =>
        /\ Val(frame.applied) = Ok(<<StopNode(1), StopNode(2)>>)
        /\ {StopNode(1), StopNode(2)} \subseteq graphs[G_scenario].nodes
        /\ TramLengthsRight

\* C6: with two resolvable stops apply_scenario returns the nearest nodes
\* of the two stops without repetition (the pair when they differ, the one
\* node when both stops snap to it), every returned node is in the network,
\* and the two tram edges between the nearest nodes, one per direction,
\* have exactly the configured length (300 by default), whatever the
\* traffic regime of the run.
C6_ReturnsNearestNodes ==
    TwoResolvableStops =>
        /\ Val(frame.applied) = Ok(Dedup(<<StopNode(1), StopNode(2)>>))
        /\ {StopNode(1), StopNode(2)} \subseteq graphs[G_scenario].nodes
        /\ TramLengthsRight

\* C6 witness: a peak run whose scenario links two stops with different
\* nearest nodes by a tram edge of a configured, non-default length.
C6_Witness ==
    /\ pc = "SCENARIO_APPLIED"
    /\ TwoResolvableStops
    /\ IsPeak(MainTrafficLevel(frame.config))
    /\ StopNode(1) # StopNode(2)
    /\ MainLength(frame.config) = AltTramLength
    /\ frame.adjusted.edges # {}
    /\ Val(frame.applied) = Ok(<<StopNode(1), StopNode(2)>>)

\* The tram node pool the last run_abm call was given, when it is not empty.
PoolGiven == call.tram_nodes # None /\ Val(call.tram_nodes) # <<>>

\* C11: whenever run_abm is given a non-empty tram node pool, every tram
\* agent has its home in the pool; every other agent (another mode, or tram
\* with no pool or an empty one) has its home among the nodes of the network.
C11_TramHomesFromPool ==
    (Routed /\ ret.raised = None) =>
        \A i \in 1..Len(ret.value.agents) :
            LET a == ret.value.agents[i]
            IN  IF a.mode = "tram" /\ PoolGiven
                THEN a.home_node \in SeqRange(Val(call.tram_nodes))
                ELSE a.home_node \in pre.nodes

\* C11 witness: with a pool given, one run with a tram agent homed in the
\* pool and an agent of another mode homed outside it.
C11_Witness ==
    /\ Routed
    /\ ret.raised = None
    /\ PoolGiven
    /\ \E i, j \in 1..Len(ret.value.agents) :
          /\ ret.value.agents[i].mode = "tram"
          /\ ret.value.agents[i].home_node \in SeqRange(Val(call.tram_nodes))
          /\ ret.value.agents[j].mode # "tram"
          /\ ret.value.agents[j].home_node \notin SeqRange(Val(call.tram_nodes))

\* Something of the run past hub resolution exists: a routing pass was
\* made, the scenario graph was made or changed, or output was written.
PastHubResolution ==
    \/ frame.baseline # None
    \/ frame.tramline # None
    \/ frame.applied # None
    \/ frame.outputs # None
    \/ G_scenario # NoRef
    \/ pc \in {"HUB_RESOLVED", "BASELINE_ROUTED", "SCENARIO_APPLIED",
               "SCENARIO_ROUTED", "AGGREGATED"}
HubFailed == pc = "FAILED" /\ frame.error = "hub"

\* C12: in an orchestrator run nothing past hub resolution happens unless
\* the resolved hub is a node of the baseline network: a run whose hub is
\* not resolved to a node of the network ends in failure with no routing
\* pass made, no scenario applied and no output written.
C12_NoRoutingWithoutHub ==
    /\ PastHubResolution =>
          (frame.hub # None /\ Val(frame.hub) \in graphs[G_base].nodes)
    /\ HubFailed =>
          (~PastHubResolution /\ frame.hub = None)

\* C12 witness: a run on a network that has nodes, with a hub name that
\* leads to none of them, ended in failure at hub resolution.
C12_Witness ==
    /\ HubFailed
    /\ graphs[G_base].nodes # {}
    /\ frame.baseline = None
    /\ frame.outputs = None

\* C13 as stated: on a network without nodes run_abm, asked for N >= 0
\* agents, raises nothing and returns no agents and statistics whose count
\* is N and whose active count is 0.
C13_EmptyNetworkKeepsCount ==
    (Routed /\ pre.nodes = {} /\ Requested >= 0) =>
        /\ ret.raised = None
        /\ ret.value.agents = <<>>
        /\ ret.value.stats.active = 0
        /\ ret.value.stats.count = Requested

\* The two statistics records a finished run wrote, and the distance
\* figures of one: the population ones and the per-mode ones.
WrittenStats ==
    {Val(frame.outputs).baseline_stats, Val(frame.outputs).tramline_stats}
PopulationFigures(st) == {st.avg_distance, st.min_distance, st.max_distance}
ModeFigures(st) ==
    UNION {{st.by_mode[m].avg, st.by_mode[m].max} : m \in DOMAIN st.by_mode}

\* C14 as stated: the statistics records the orchestrator writes hold no
\* NaN and no Infinity, and when a pass had no reachable agent its
\* population average, minimum and maximum distance are written as null.
C14_NullWhenNoneReachable ==
    pc = "AGGREGATED" =>
        \A st \in WrittenStats :
            /\ \A f \in PopulationFigures(st) \cup ModeFigures(st) :
                  f.kind \notin {"NaN", "Infinity"}
            /\ st.active = 0 =>
                  \A f \in PopulationFigures(st) : f.kind = "null"

\* The simple paths of g from a to b, and the length of one: the sum over
\* its steps of the shortest edge between the two nodes of the step.
PathsBetween(g, a, b) ==
    {p \in UNION {[1..k -> g.nodes] : k \in 1..Cardinality(g.nodes)} :
        /\ p[1] = a
        /\ p[Len(p)] = b
        /\ \A i, j \in 1..Len(p) : p[i] = p[j] => i = j
        /\ \A i \in 1..(Len(p) - 1) : \E e \in g.edges : e.ends = {p[i], p[i + 1]}}
LinkLength(g, n, m) == Min({Val(e.length) : e \in {x \in g.edges : x.ends = {n, m}}})
RECURSIVE PathLength(_, _)
PathLength(g, p) ==
    IF Len(p) < 2 THEN 0
    ELSE LinkLength(g, p[1], p[2]) + PathLength(g, Tail(p))
LeastPathLength(g, a, b) == Min({PathLength(g, p) : p \in PathsBetween(g, a, b)})

\* g is connected, has the hub among its nodes and a length on every edge,
\* and the tram pool of the call, if any, holds nodes of g only.
ConnectedAround(g, hub) ==
    /\ hub \in g.nodes
    /\ \A n \in g.nodes : HasPath(g, n, hub)
    /\ \A e \in g.edges : e.length # None
    /\ PoolGiven => SeqRange(Val(call.tram_nodes)) \subseteq g.nodes

\* C15: on a connected network (the hub and the tram pool being of the
\* network) every agent run_abm returns is reachable, its total_distance
\* is the least sum of edge lengths over the paths from its home to the hub
\* (0 when the home is the hub), and the reported average is the
\* arithmetic mean of these distances.
C15_ShortestPathDistances ==
    (Routed /\ ret.raised = None /\ ConnectedAround(pre, call.hub)) =>
        LET agents == ret.value.agents
        IN  /\ \A i \in 1..Len(agents) :
                  /\ agents[i].status = "active"
                  /\ agents[i].total_distance =
                        LeastPathLength(pre, agents[i].home_node, call.hub)
                  /\ agents[i].home_node = call.hub => agents[i].total_distance = 0
            /\ ret.value.stats.active = Len(agents)
            /\ agents # <<>> =>
                  ret.value.stats.avg_distance =
                      Rat(SumAt(agents, 1..Len(agents)), Len(agents))

\* C15 witness: one agent lives at the hub, another has a direct edge to
\* the hub that is longer than its way round over two shorter edges.
C15_Witness ==
    /\ Routed
    /\ ret.raised = None
    /\ ConnectedAround(pre, call.hub)
    /\ \E i, j \in 1..Len(ret.value.agents) :
          LET a == ret.value.agents[i]
              b == ret.value.agents[j]
          IN  /\ a.home_node = call.hub
              /\ a.total_distance = 0
              /\ \E e \in pre.edges : e.ends = {b.home_node, call.hub}
              /\ b.home_node # call.hub
              /\ b.total_distance < LinkLength(pre, b.home_node, call.hub)
              /\ b.total_distance = ShortLen + MidLen

\* The nearest node of a stop the lookup of the call knows, and the places
\* along the stop list (two per resolved pair, in order) where node n is
\* an end of an inserted tram edge.
NodeOfStop(name) ==
    LET c == CallLookup.value[name]
    IN  nearest_nodes(pre, c[2], c[1])
Touches(n) ==
    {2 * i - 1 : i \in {k \in ResolvedPairs : NodeOfStop(CallStops[k]) = n}}
      \cup {2 * i : i \in {k \in ResolvedPairs : NodeOfStop(CallStops[k + 1]) = n}}

\* C16: apply_scenario returns the end nodes of the tram edges it inserted,
\* each once, in the order in which they first occur along the stop list;
\* the list is empty when the stops are fewer than two or no consecutive
\* pair resolved, and it holds no node without an inserted tram edge.
C16_TouchedNodesInOrder ==
    (call.op = "apply_scenario" /\ ret.raised = None) =>
        LET v == ret.value
        IN  /\ \A i, j \in 1..Len(v) : v[i] = v[j] => i = j
            /\ SeqRange(v) = UNION {e.ends : e \in AddedEdges}
            /\ \A e \in AddedEdges : e.tram
            /\ \A i \in 1..Len(v) : Touches(v[i]) # {}
            /\ \A i, j \in 1..Len(v) :
                  i < j => Min(Touches(v[i])) < Min(Touches(v[j]))
            /\ (Len(CallStops) < 2 \/ ResolvedPairs = {}) => v = <<>>

\* C16 witness: two pairs resolved and linked, a node touched by both, so
\* that the list returned is shorter than the list of edge ends.
C16_Witness ==
    /\ call.op = "apply_scenario"
    /\ ret.raised = None
    /\ Cardinality(ResolvedPairs) = 2
    /\ Cardinality(AddedEdges) = 4
    /\ Len(ret.value) \in {2, 3}
    /\ \E n \in SeqRange(ret.value) : Cardinality(Touches(n)) >= 2

----------------------------------------------------------------------------
(* Claims about traffic adjustment around scenario application (SpecReadjust) *)

\* Edge f is edge e of the multigraph: the same end nodes and key.
SameLink(e, f) == e.ends = f.ends /\ e.key = f.key

\* C17: once an edge has a base_length, no later call (adjust_for_traffic
\* with any regime, also after apply_scenario has added tram edges, or
\* apply_scenario itself) changes the base_length of that edge.
C17_BaseLengthKept ==
    [][\A e \in graphs[G_base].edges :
          e.base_length # None =>
              \E f \in graphs'[G_base].edges :
                  SameLink(e, f) /\ f.base_length = e.base_length]_vars

\* C17 witness: a tram edge got its base_length under the peak regime and
\* a road edge at load; a later adjustment to another regime has left both
\* base lengths as they were and reset the lengths to them.
C17_Witness ==
    /\ pc = "readjust"
    /\ call.op = "adjust_for_traffic"
    /\ call.before = "adjust_for_traffic"
    /\ ~IsPeak(call.traffic_level)
    /\ \E e \in graphs[G_base].edges, f \in pre.edges :
          /\ e.tram
          /\ SameLink(e, f)
          /\ f.base_length = Some(AltTramLength)
          /\ f.length = Some(Congested(AltTramLength))
          /\ e.base_length = Some(AltTramLength)
          /\ e.length = Some(AltTramLength)
    /\ \E e \in graphs[G_base].edges :
          ~e.tram /\ e.base_length = Some(ShortLen) /\ e.length = Some(ShortLen)

----------------------------------------------------------------------------
(* Claims about the lengths the orchestrator routes over (SpecMain) *)

\* The networks a routing pass of the run has been made over.
RoutedNetworks ==
    (IF frame.baseline # None THEN {graphs[G_base]} ELSE {})
      \cup (IF frame.tramline # None THEN {graphs[G_scenario]} ELSE {})
RunIsPeak == frame.config.traffic = Some(Peak)

\* Edge e has length base * factor(regime of the run), factor 3/2 or 1.
ScaledFrom(e, base) ==
    /\ e.length # None
    /\ IF RunIsPeak
       THEN Val(e.length) * PeakFactorDen = base * PeakFactorNum
       ELSE Val(e.length) = base

\* C18 as stated: in every network the orchestrator routes over, every
\* edge's length is its base length times the congestion factor of the
\* run's regime (for an edge that has no base_length recorded, the length
\* it was inserted with is taken as its base).
C18_EveryEdgeDerived ==
    "hub" \in DOMAIN frame =>
        \A g \in RoutedNetworks : \A e \in g.edges :
            IF e.base_length # None
            THEN ScaledFrom(e, Val(e.base_length))
            ELSE ScaledFrom(e, MainLength(frame.config))

\* C18: in every network the orchestrator routes over, every road edge has
\* a base_length, and its length is that base_length times the congestion
\* factor of the run's regime; the tram edges of the scenario network have
\* no base_length and carry the configured tram length in every regime.
C18_RoadEdgesDerived ==
    "hub" \in DOMAIN frame =>
        \A g \in RoutedNetworks : \A e \in g.edges :
            IF e.tram
            THEN e.base_length = None /\ e.length = Some(MainLength(frame.config))
            ELSE e.base_length # None /\ ScaledFrom(e, Val(e.base_length))

\* C18 witness: a peak run has routed over a scenario network that holds a
\* tram edge beside congested road edges.
C18_Witness ==
    /\ pc = "SCENARIO_ROUTED"
    /\ RunIsPeak
    /\ frame.tramline # None
    /\ \E e, t \in graphs[G_scenario].edges :
          /\ ~e.tram
          /\ e.base_length = Some(ShortLen)
          /\ e.length = Some(3 * ShortHalf)
          /\ t.tram
          /\ t.length = Some(MainLength(frame.config))

----------------------------------------------------------------------------
(* Claims about the regime matching (SpecRegime) *)

\* Every edge that had a length before the call has num/den times that
\* length after it, and the other edges are as they were.
LengthsTimes(num, den) ==
    /\ \A e \in pre.edges : \E f \in graphs[G_base].edges :
          /\ e.ends = f.ends /\ e.key = f.key
          /\ IF e.length = None THEN f.length = None
             ELSE /\ f.length # None
                  /\ Val(f.length) * den = Val(e.length) * num
    /\ Cardinality(graphs[G_base].edges) = Cardinality(pre.edges)

\* C19: adjust_for_traffic applied to a freshly loaded network gives every
\* spelling of peak and rush hour (hyphenated, spaced or joined; lower,
\* upper or mixed case; with or without whitespace around) the factor 1.5,
\* every such spelling of off-peak and normal the factor 1.0, and a string
\* that names no regime the factor 1.0 too; it never raises.
C19_TolerantRegimeMatch ==
    (call.op = "adjust_for_traffic" /\ ncalls = 1) =>
        /\ ret = Some(G_base)
        /\ call.traffic_level \in Spellings(PeakNames) =>
              LengthsTimes(PeakFactorNum, PeakFactorDen)
        /\ call.traffic_level \in Spellings(OffPeakNames) \cup UnknownNames =>
              LengthsTimes(1, 1)

\* C19 witness: "\tRUSH HOUR\n" made a network with edges half as long
\* again.
C19_Witness ==
    /\ call.op = "adjust_for_traffic"
    /\ ncalls = 1
    /\ call.traffic_level =
          <<"\t", "R", "U", "S", "H", " ", "H", "O", "U", "R", "\n">>
    /\ \E e \in pre.edges, f \in graphs[G_base].edges :
          /\ e.ends = f.ends /\ e.key = f.key
          /\ e.length = Some(ShortLen)
          /\ f.length = Some(3 * ShortHalf)

----------------------------------------------------------------------------
(* Claims about the hub name (SpecMain) *)

\* The stop names of the scenario the run applies.
ScenarioStopNames == {MainTramStops(frame.config)[i] :
                         i \in 1..Len(MainTramStops(frame.config))} \ {""}
HubNameUsed == HubName(frame.config, registry)
HubStageReached == "hub" \in DOMAIN frame /\ pc \notin {"start", "LOADED", "TRAFFIC_ADJUSTED"}
                   /\ ~(pc = "FAILED" /\ frame.error = "load_city")

\* C20 as stated: the hub name is the configured hub if there is one,
\* else the registry's hub of the city if there is one, else one of the
\* stop names of the scenario being run, so that a name is there whenever
\* the scenario has a stop name.
C20_HubNameOrder ==
    HubStageReached =>
        IF frame.config.hub # "" THEN HubNameUsed = frame.config.hub
        ELSE IF registry.hub # "" THEN HubNameUsed = registry.hub
        ELSE ScenarioStopNames # {} => HubNameUsed \in ScenarioStopNames

----------------------------------------------------------------------------
(* Claims about a negative agent count (SpecAbm) *)

NegativeRequested == call.num_agents # None /\ Val(call.num_agents) < 0

\* C21 as stated: a negative agent count is rejected as a fatal error: the
\* routing pass asked for a negative number of agents raises, and returns no
\* statistics record, so none with a negative count.
C21_NegativeCountRejected ==
    (Routed /\ NegativeRequested) => ret.raised # None

----------------------------------------------------------------------------
(* Claims about the order of the orchestrator's steps (SpecMain) *)

\* The steps of main in the order of its text; hub resolution lies between
\* traffic adjustment and the baseline pass.
StageOrder ==
    <<"start", "LOADED", "TRAFFIC_ADJUSTED", "HUB_RESOLVED", "BASELINE_ROUTED",
      "SCENARIO_APPLIED", "SCENARIO_ROUTED", "AGGREGATED">>
StageRank(s) == CHOOSE i \in 1..Len(StageOrder) : StageOrder[i] = s
Terminal == {"AGGREGATED", "FAILED"}

\* Traffic adjustment has acted on g: every road edge with a length has its
\* base length recorded.
TrafficAdjusted(g) ==
    \A e \in g.edges : (~e.tram /\ e.length # None) => e.base_length # None

\* What exists of a run tells which steps were made before.
StagesInOrder ==
    /\ frame.baseline # None =>
          G_base # NoRef /\ TrafficAdjusted(graphs[G_base])
    /\ frame.baseline = None =>
          /\ G_scenario = NoRef /\ frame.applied = None
          /\ \A r \in Refs : TramEdges(graphs[r]) = {}
    /\ frame.tramline # None =>
          /\ frame.baseline # None /\ frame.applied # None
          /\ TrafficAdjusted(graphs[G_scenario])
    /\ frame.outputs # None => frame.baseline # None /\ frame.tramline # None
    /\ pc = "AGGREGATED" <=> frame.outputs # None

\* A step leads from a stage to the next one of the order or to failure, and
\* nothing follows a terminal stage.
StageStep ==
    pc' # pc =>
        /\ pc \notin Terminal
        /\ pc' = "FAILED" \/ StageRank(pc') = StageRank(pc) + 1

\* C22: an orchestrator run makes its steps in the order load, traffic
\* adjustment, baseline routing, scenario application, scenario routing,
\* output, one after the other without skipping any; its last stage is the
\* one with both statistics records written, or failure; a routing pass runs on a
\* traffic-adjusted network only, and no tram edge exists before the
\* baseline pass is over.
C22_FixedStepOrder == [](StagesInOrder) /\ [][StageStep]_vars

C22_Witness ==
    /\ pc = "AGGREGATED"
    /\ frame.config.traffic = Some(Peak)
    /\ TramEdges(graphs[G_scenario]) # {}
    /\ graphs[G_base].edges # {}
    /\ frame.outputs # None

----------------------------------------------------------------------------
(* Claims about aborted runs and unreachable agents (SpecMain) *)

\* The result r of a routing pass over network g is a full statistics
\* result: every requested agent is in it, active exactly when its home has
\* a path to the hub, and the active count counts those.
PassReported(r, g) ==
    /\ Len(r.agents) = frame.config.num_agents
    /\ r.stats.count = frame.config.num_agents
    /\ \A i \in 1..Len(r.agents) :
          r.agents[i].status =
             (IF HasPath(g, r.agents[i].home_node, Val(frame.hub))
              THEN "active" ELSE "inactive")
    /\ r.stats.active = Cardinality(WithStatus(r.agents, "active"))
AbortedPrecondition == loaded.nodes = {} \/ frame.hub = None
NoStatistics ==
    frame.baseline = None /\ frame.tramline = None /\ frame.outputs = None

\* C23: an orchestrator run in which agents, or all of them, have no path
\* to the hub is not a failed run: the routing passes raise nothing and
\* report those agents as not active; a run without network nodes or
\* without a hub ends in failure with no statistics; no run has statistics
\* for such a precondition and no run fails in a routing pass.
C23_DisconnectedIsNoAbort ==
    /\ AbortedPrecondition => (NoStatistics /\ pc \notin {"BASELINE_ROUTED",
          "SCENARIO_APPLIED", "SCENARIO_ROUTED", "AGGREGATED"})
    /\ pc = "FAILED" =>
          (frame.outputs = None /\ frame.error \in {"load_city", "hub", "apply_scenario"})
    /\ frame.baseline # None => PassReported(Val(frame.baseline), graphs[G_base])
    /\ frame.tramline # None => PassReported(Val(frame.tramline), graphs[G_scenario])

\* C23 witness: a finished run whose only agent had no path to the hub in
\* either pass, and a failed one on a network without nodes.
C23_Witness ==
    /\ pc = "AGGREGATED"
    /\ frame.config.num_agents >= 1
    /\ Val(frame.baseline).stats.active = 0
    /\ Val(frame.tramline).stats.active = 0
    /\ ~HasPath(graphs[G_base], Val(frame.baseline).agents[1].home_node, Val(frame.hub))
    /\ Val(frame.outputs).baseline_stats.active = 0

----------------------------------------------------------------------------
(* Claims about the statistics and the agent list of one pass (SpecAbm) *)

ActiveOfMode(agents, m) == OfMode(agents, WithStatus(agents, "active"), m)

\* C27: for a run_abm call on a network with nodes and a count that is not
\* negative, the statistics agree with the agent list returned with them:
\* count is the length of the list, active the number of active agents, the
\* per-mode counts add up to active, and each is the number of active agents
\* of its mode, which is also the count group_stats_by_mode gives the mode.
C27_StatsMatchAgents ==
    (Routed /\ pre.nodes # {} /\ Requested >= 0 /\ ret.raised = None) =>
        LET st == ret.value.stats
            agents == ret.value.agents
            by_mode == group_stats_by_mode(agents)
        IN  /\ st.count = Len(agents)
            /\ st.active = Cardinality(WithStatus(agents, "active"))
            /\ SumSeq([i \in 1..Len(Modes) |-> st.modes[Modes[i]]]) = st.active
            /\ DOMAIN st.modes = ModeSet
            /\ \A m \in ModeSet :
                  /\ st.modes[m] = Cardinality(ActiveOfMode(agents, m))
                  /\ IF m \in DOMAIN by_mode THEN by_mode[m].count = st.modes[m]
                     ELSE st.modes[m] = 0

\* C27 witness: a pass with an active and an inactive agent of one mode.
C27_Witness ==
    /\ Routed /\ pre.nodes # {} /\ ret.raised = None
    /\ Len(ret.value.agents) = 2
    /\ ret.value.agents[1].mode = ret.value.agents[2].mode
    /\ ret.value.agents[1].status = "inactive"
    /\ ret.value.agents[2].status = "active"
    /\ ret.value.stats.modes[ret.value.agents[1].mode] = 1

----------------------------------------------------------------------------
(* Claims about an explicitly passed stop lookup (SpecScenario) *)

\* The lookup the caller passed, and the consecutive pairs of stops with
\* both names in it.
LookupPassed == call.op = "apply_scenario" /\ call.tram_lookup # None
PassedPairs ==
    {i \in 1..(Len(CallStops) - 1) :
        /\ CallStops[i] \in DOMAIN Val(call.tram_lookup)
        /\ CallStops[i + 1] \in DOMAIN Val(call.tram_lookup)}

\* C30 as stated: when a lookup is passed to apply_scenario, the empty one
\* included, stops are resolved against it alone, whatever city_name is:
\* the edges added are those of the pairs with both names in the passed
\* lookup, and the city registry is not read, so a call raises only when
\* such a pair exists.
C30_PassedLookupOnly ==
    LookupPassed =>
        /\ ret.raised = None =>
              Cardinality(AddedEdges) = 2 * Cardinality(PassedPairs)
        /\ ret.raised # None => PassedPairs # {}

----------------------------------------------------------------------------
(* The job API: submit_job, get_status, get_insights, the job store and the
   simulation process a submission starts (api/main.py, api/store.py).  One
   job is followed.  frame holds the clock in seconds, the job record of the
   store, the files of the job directory and the simulation process. *)

\* Timeline of the store: 0-2s queued, 2-12s running, 12s+ complete.
QueuedUntil == 2
RunningUntil == 12

\* MAX_STATUS_WAIT_SEC as _load_site_max_wait gives it without a site file.
MAX_STATUS_WAIT_SEC == 180

\* The instants, in seconds since the submission, at which something
\* happens to the job.
LastInstant == 200
Instants == {0, 1, QueuedUntil, 7, RunningUntil - 1, RunningUntil, 100,
             MAX_STATUS_WAIT_SEC - 1, MAX_STATUS_WAIT_SEC, LastInstant}

\* The traffic_level strings a submit request carries (any str is accepted).
ApiTrafficLevels ==
    { OffPeak, Peak, <<"n", "o", "r", "m", "a", "l">>,
      <<"r", "u", "s", "h", "_", "h", "o", "u", "r">> }

\* The files of a job directory; a file is absent, empty (created, nothing
\* written through yet), partial (some of its bytes there, still open) or
\* written.
FileNames ==
    {"config.json", "stdout.log", "stderr.log", "insights.md",
     "baseline_access.html", "tramline_access_colored.html", "tramline_access.html",
     "baseline_stats.json", "tramline_stats.json",
     "baseline_stats_{suffix}.json", "tramline_stats_{suffix}.json"}

\* run_sim.py 232-262: the order in which the simulation writes its outputs.
WriteOrder ==
    <<"baseline_access.html", "tramline_access_colored.html",
      "baseline_stats.json", "tramline_stats.json",
      "baseline_stats_{suffix}.json", "tramline_stats_{suffix}.json">>

\* path.exists() and path.stat().st_size > 0
exists_nonempty(files, name) == files[name] \in {"partial", "written"}

\* _list_artifacts: every file of the job directory.
list_artifacts(files) == {f \in FileNames : files[f] # "absent"}

\* InMemoryStore.create_job
create_job(now, config) ==
    [status |-> "queued", progress |-> 0, submitted_at |-> now,
     started_at |-> None, finished_at |-> None, config |-> config]

\* InMemoryStore.get_job: the job record after the store has set status and
\* progress from the time since submission.
OrElse(a, b) == IF a # None THEN a ELSE Some(b)
get_job(job, now) ==
    LET elapsed == now - job.submitted_at
    IN  IF elapsed < QueuedUntil
        THEN [job EXCEPT !.status = "queued", !.progress = 0]
        ELSE IF elapsed < RunningUntil
        THEN [job EXCEPT
                !.status = "running",
                !.progress = Min({99, ((elapsed - QueuedUntil) * 100) \div 10}),
                !.started_at = OrElse(@, job.submitted_at + QueuedUntil)]
        ELSE [job EXCEPT
                !.status = "complete",
                !.progress = 100,
                !.started_at = OrElse(@, job.submitted_at + QueuedUntil),
                !.finished_at = OrElse(@, job.submitted_at + RunningUntil)]

\* submit_job line 299: the template the configuration is built from.
base_cfg_name(traffic_level) ==
    IF traffic_level = OffPeak THEN "config_off-peak.json" ELSE "config_peak.json"

\* get_status 511-524 and 528
RequiredAll == <<"baseline_stats.json", "tramline_stats.json", "baseline_access.html">>
OptionalAny == <<"tramline_access_colored.html", "tramline_access.html">>
have_all(files) ==
    /\ \A i \in 1..Len(RequiredAll) : exists_nonempty(files, RequiredAll[i])
    /\ \E i \in 1..Len(OptionalAny) : exists_nonempty(files, OptionalAny[i])

\* get_status 553-558: within the wait window a job the store set to
\* complete is put back to running.
WithinWindowKeeping(job) == job
WithinWindow(job) ==
    IF job.status = "complete"
    THEN [job EXCEPT !.status = "running", !.finished_at = None]
    ELSE job

\* get_status 543-582: the job record and the message and partial flag of
\* the response.  The only text stderr.log gets in the model is a traceback.
Decide(job, files, now) ==
    LET elapsed == Max({0, now - job.submitted_at})
        has_error == exists_nonempty(files, "stderr.log")
    IN  IF have_all(files)
        THEN [job |-> IF job.status # "complete"
                      THEN [job EXCEPT !.status = "complete", !.finished_at = Some(now)]
                      ELSE job,
              message |-> "All artifacts are ready.", partial |-> FALSE]
        ELSE IF elapsed < MAX_STATUS_WAIT_SEC
        THEN [job |-> WithinWindow(job),
              message |-> IF has_error
                          THEN "Errors detected, still processing. Waiting for outputs"
                          ELSE "Generating outputs. This may take a moment",
              partial |-> FALSE]
        ELSE IF \E f \in SeqRange(RequiredAll \o OptionalAny) : exists_nonempty(files, f)
        THEN [job |-> [job EXCEPT !.status = "complete",
                                  !.finished_at = OrElse(@, now)],
              message |-> IF has_error
                          THEN "Partial results available (errors were logged)."
                          ELSE "Partial results available after timeout.",
              partial |-> TRUE]
        ELSE [job |-> [job EXCEPT !.status = "failed"],
              message |-> IF has_error
                          THEN "Simulation failed. See stderr.log for details."
                          ELSE "Timed out waiting for results.",
              partial |-> FALSE]

\* get_status(job_id) for a job of the store: the job record after the call
\* and the response.  partial and error are None in the response when false.
get_status(job0, files, now) ==
    LET dec == Decide(get_job(job0, now), files, now)
        job == dec.job
        has_error == exists_nonempty(files, "stderr.log")
    IN  [job |-> job,
         response |->
            [status |-> job.status, progress |-> job.progress,
             submitted_at |-> job.submitted_at, started_at |-> job.started_at,
             finished_at |-> job.finished_at, artifacts |-> list_artifacts(files),
             message |-> dec.message,
             partial |-> IF dec.partial THEN Some(TRUE) ELSE None,
             error |-> IF has_error THEN Some(TRUE) ELSE None,
             missing |-> SelectSeq(RequiredAll, LAMBDA f : ~exists_nonempty(files, f)),
             timeout_sec |-> MAX_STATUS_WAIT_SEC,
             elapsed_sec |-> Max({0, now - job.submitted_at})]]

InitApi ==
    /\ frame = [clock |-> 0, job |-> None,
                files |-> [f \in FileNames |-> "absent"],
                sim |-> [state |-> "none", next |-> 1, peak |-> FALSE]]
    /\ pc = "api"
    /\ call = [op |-> "none"]
    /\ ret = None
    /\ ncalls = 0
    /\ graphs = [r \in Refs |-> EmptyGraph]
    /\ pre = EmptyGraph
    /\ loaded = EmptyGraph
    /\ registry = NoRegistry
    /\ G_base = NoRef
    /\ G_scenario = NoRef

ApiUnchanged ==
    UNCHANGED <<graphs, G_base, G_scenario, loaded, pre, registry, pc, ncalls>>

\* Time passes, up to the last instant followed.
Tick ==
    /\ pc = "api"
    /\ frame.job # None
    /\ \E t \in Instants :
          /\ t > frame.clock
          /\ frame' = [frame EXCEPT !.clock = t]
    /\ UNCHANGED <<call, ret>>
    /\ ApiUnchanged

\* submit_job(request): the configuration is the template with the request
\* merged in (of its keys the model keeps "traffic"); the job is created,
\* config.json written, the simulation started with its two log files, and
\* the job marked running.
SubmitJob(traffic_level) ==
    /\ pc = "api"
    /\ frame.job = None
    /\ LET cfg == [template |-> base_cfg_name(traffic_level),
                   traffic |-> Some(traffic_level)]
           job == create_job(frame.clock, cfg)
       IN  /\ frame' = [frame EXCEPT
                !.job = Some([job EXCEPT !.status = "running",
                                         !.started_at = Some(frame.clock)]),
                !.files = [@ EXCEPT !["config.json"] = "written",
                                    !["stdout.log"] = "empty",
                                    !["stderr.log"] = "empty"],
                !.sim = [state |-> "spawned", next |-> 1, peak |-> FALSE]]
           /\ ret' = Ok([status |-> "running", submitted_at |-> job.submitted_at])
    /\ call' = [op |-> "submit_job", traffic_level |-> traffic_level]
    /\ ApiUnchanged

\* GET /v1/status/{job_id}
GetStatus ==
    /\ pc = "api"
    /\ IF frame.job = None
       THEN /\ ret' = Raise("HTTP 404")
            /\ UNCHANGED frame
       ELSE LET r == get_status(Val(frame.job), frame.files, frame.clock)
            IN  /\ frame' = [frame EXCEPT !.job = Some(r.job)]
                /\ ret' = Ok(r.response)
    /\ call' = [op |-> "get_status"]
    /\ ApiUnchanged

\* GET /v1/insights/{job_id}: the store's get_job, the two statistics files
\* read, and the summary cached in insights.md.
GetInsights ==
    /\ pc = "api"
    /\ IF frame.job = None
       THEN /\ ret' = Raise("HTTP 404")
            /\ UNCHANGED frame
       ELSE LET job == get_job(Val(frame.job), frame.clock)
                read(f) == frame.files[f] = "written"
            IN  IF ~(read("baseline_stats.json") /\ read("tramline_stats.json"))
                THEN /\ ret' = Raise("HTTP 400")
                     /\ frame' = [frame EXCEPT !.job = Some(job)]
                ELSE /\ ret' = Ok([cached |-> frame.files["insights.md"] = "written"])
                     /\ frame' = [frame EXCEPT !.job = Some(job),
                                               !.files["insights.md"] = "written"]
    /\ call' = [op |-> "get_insights"]
    /\ ApiUnchanged

\* The simulation process: run_sim.py main reads the configuration
\* (line 113) and adjusts the network for its traffic level (line 140).
SimStart ==
    /\ pc = "api"
    /\ frame.sim.state = "spawned"
    /\ frame' = [frame EXCEPT
          !.sim = [state |-> "running", next |-> 1,
                   peak |-> IsPeak(MainTrafficLevel(Val(frame.job).config))]]
    /\ UNCHANGED <<call, ret>>
    /\ ApiUnchanged

Writing == frame.sim.state = "running" /\ frame.sim.next <= Len(WriteOrder)
Current == WriteOrder[frame.sim.next]

\* open(path, "w"): the file is there and empty.
SimOpen ==
    /\ pc = "api"
    /\ Writing
    /\ frame.files[Current] = "absent"
    /\ frame' = [frame EXCEPT !.files[Current] = "empty"]
    /\ UNCHANGED <<call, ret>>
    /\ ApiUnchanged

\* Part of a map's HTML has reached the file.
SimFlush ==
    /\ pc = "api"
    /\ Writing
    /\ Current \in {"baseline_access.html", "tramline_access_colored.html"}
    /\ frame.files[Current] = "empty"
    /\ frame' = [frame EXCEPT !.files[Current] = "partial"]
    /\ UNCHANGED <<call, ret>>
    /\ ApiUnchanged

\* The file is closed with all its content.
SimClose ==
    /\ pc = "api"
    /\ Writing
    /\ frame.files[Current] \in {"empty", "partial"}
    /\ frame' = [frame EXCEPT !.files[Current] = "written", !.sim.next = @ + 1]
    /\ UNCHANGED <<call, ret>>
    /\ ApiUnchanged

\* main returns after the last file.
SimExit ==
    /\ pc = "api"
    /\ frame.sim.state = "running"
    /\ frame.sim.next > Len(WriteOrder)
    /\ frame' = [frame EXCEPT !.sim.state = "exited", !.files["stdout.log"] = "written"]
    /\ UNCHANGED <<call, ret>>
    /\ ApiUnchanged

\* An exception ends the process at any point; the traceback goes to stderr.log.
SimCrash ==
    /\ pc = "api"
    /\ frame.sim.state \in {"spawned", "running"}
    /\ frame' = [frame EXCEPT !.sim.state = "crashed", !.files["stderr.log"] = "written"]
    /\ UNCHANGED <<call, ret>>
    /\ ApiUnchanged

NextApi ==
    \/ \E lv \in ApiTrafficLevels : SubmitJob(lv)
    \/ GetStatus
    \/ GetInsights
    \/ Tick
    \/ SimStart
    \/ SimOpen
    \/ SimFlush
    \/ SimClose
    \/ SimExit
    \/ SimCrash

SpecApi == InitApi /\ [][NextApi]_vars

----------------------------------------------------------------------------
(* Claims about the job API (SpecApi) *)

\* The last call was a status poll of the job and got a response; files
\* only gain content, so a file missing now was missing at the poll and a
\* file non-empty at the poll is non-empty now.
StatusResponse == call.op = "get_status" /\ ret.raised = None
NonEmpty(f) == frame.files[f] \in {"partial", "written"}
AllThere ==
    /\ NonEmpty("baseline_stats.json")
    /\ NonEmpty("tramline_stats.json")
    /\ NonEmpty("baseline_access.html")
    /\ NonEmpty("tramline_access_colored.html") \/ NonEmpty("tramline_access.html")
ReportedFull == ret.value.status = "complete" /\ ret.value.partial = None

\* C24: get_status reports complete without the partial flag, and the
\* message 'All artifacts are ready.', only when both statistics files, the
\* baseline map and a tram map exist and are non-empty; while one of them
\* is missing and the elapsed time is below the wait limit, the reported
\* status is neither complete nor failed.
C24_CompleteOnlyWithArtifacts ==
    StatusResponse =>
        /\ ReportedFull => AllThere
        /\ ret.value.message = "All artifacts are ready." => (AllThere /\ ReportedFull)
        /\ (~AllThere /\ ret.value.elapsed_sec < MAX_STATUS_WAIT_SEC) =>
              ret.value.status \in {"queued", "running"}

\* C24 witness: a poll after the store's twelve seconds and within the wait
\* limit, with the tram map still missing, answered running.
C24_Witness ==
    /\ StatusResponse
    /\ ret.value.elapsed_sec >= RunningUntil
    /\ ret.value.elapsed_sec < MAX_STATUS_WAIT_SEC
    /\ NonEmpty("baseline_access.html")
    /\ ~AllThere
    /\ ret.value.status = "running"
    /\ frame.clock = ret.value.elapsed_sec

\* The status of the job in the store, and how far along the life cycle
\* queued -> running -> complete | failed a status is.
StatusRank(st) == IF st = "queued" THEN 0 ELSE IF st = "running" THEN 1 ELSE 2
StatusStep ==
    (frame.job # None /\ frame'.job # None) =>
        LET old == Val(frame.job).status
            new == Val(frame'.job).status
        IN  \/ new = old
            \/ StatusRank(old) < StatusRank(new)

\* C25 as stated: over the submit_job, get_status and insights calls for a
\* job its status only moves forward along queued -> running -> complete |
\* failed: never from running back to queued, never from complete back to
\* running, and never away from complete or failed.
C25_StatusOnlyForward == [][StatusStep]_vars

\* C26 as stated: in every status response the progress is within 0..100,
\* at most 99 when the reported status is running, and 100 only when the
\* reported status is complete.
C26_ProgressMatchesStatus ==
    StatusResponse =>
        /\ ret.value.progress \in 0..100
        /\ ret.value.status = "running" => ret.value.progress <= 99
        /\ ret.value.progress = 100 => ret.value.status = "complete"

\* The simulation process of the job is alive and has an output file open
\* or still to write.
StillWriting ==
    /\ frame.sim.state \in {"spawned", "running"}
    /\ frame.sim.next <= Len(WriteOrder)
OutputFiles == SeqRange(WriteOrder)

\* C28 as stated: whatever the interleaving of a status poll with the
\* simulation process of the job, a response that says complete without
\* the partial flag is not given while the process is still writing its
\* output files, and every output file it lists is fully written.
C28_NoCompleteWhileWriting ==
    (StatusResponse /\ ReportedFull) =>
        /\ ~StillWriting
        /\ \A f \in ret.value.artifacts \cap OutputFiles : frame.files[f] = "written"

\* The simulation of the submitted job has read its configuration and
\* adjusted the network for the traffic value in it.
SimulationAdjusted == frame.job # None /\ frame.sim.state \in {"running", "exited"}
PeakTemplate == Val(frame.job).config.template = "config_peak.json"

\* C29 as stated: for every traffic_level a submit request carries,
\* submit_job takes the peak template exactly when adjust_for_traffic,
\* given the traffic value written into the job's configuration, applies
\* the peak congestion factor.
C29_PeakAgreement ==
    SimulationAdjusted => (PeakTemplate <=> frame.sim.peak)

====
